---------------------------- MODULE Spec2Model ----------------------------
(***************************************************************************)
(* A model of the ERCOT data layer: the vintage forecast selector and the   *)
(* net load composer (server/load.py), the rolling split generator and the *)
(* rolling cross-validation (server/forecasting.py), the timestamp         *)
(* resolver and the column name normalizer (server/utils.py), the         *)
(* day-ahead price forecast (server/forecasting.py), the token manager     *)
(* (server/auth.py), the endpoint catalog (server/endpoints.py), the       *)
(* fetch path (server/client.py) and the tool dispatcher (server/main.py). *)
(*                                                                         *)
(* Tables are sequences of rows; a row is a function from column names to  *)
(* cell values.  A parsed timestamp (pandas Timestamp) is a number of      *)
(* minutes since midnight of day 0; a timestamp as the API sends it (a     *)
(* string) is a tuple <<day>> or <<day, hour, minute>>, the empty tuple    *)
(* standing for a missing value.  A missing parsed value (NaT, NaN) is     *)
(* Null.                                                                   *)
(***************************************************************************)
EXTENDS Integers, Sequences, FiniteSets, TLC

VARIABLES
    call,                   \* the operation that has run ("none" before the call)
    raised,                 \* the exception the call raised ("none" if it returned)
    \* ---- get_vintage_forecast / filter_forecast_by_posted (load.py)
    endpoint_name,          \* the forecast endpoint asked for
    date_from,              \* first requested delivery date, "YYYY-MM-DD"
    date_to,                \* last requested delivery date, "YYYY-MM-DD" or None
    postedDatetimeTo,       \* the publication cutoff sent with the fetch
    dat,                    \* the table the fetch returned / the table passed in
    dat_written,            \* what the call assigned in the table passed in
    datout,                 \* the table returned
    \* ---- create_rolling_splits (forecasting.py)
    data,                   \* the input table
    initial_training_days,  \* k
    expanding_window,       \* TRUE: expanding window, FALSE: fixed window
    splits,                 \* the returned list of (train_data, test_data, test_date)
    \* ---- add_datetime_column / parse_hour_ending (utils.py)
    df,                     \* the input table: [columns, rows]
    df_out,                 \* the returned table
    used_pattern,           \* the branch of add_datetime_column that ran (0: none)
    date,                   \* parse_hour_ending's base datetime
    hour_ending,            \* parse_hour_ending's hour-ending value
    hour_result,            \* parse_hour_ending's result
    \* ---- normalize_column_names (utils.py)
    names_df,               \* the input table: [columns, rows], columns in order
    names_out,              \* the returned table
    \* ---- get_net_load_forecast (load.py)
    solar_fetched,          \* the table the solar forecast fetch returned
    wind_fetched,           \* the table the wind forecast fetch returned
    load_fetched,           \* the table the zone load forecast fetch returned
    net_load,               \* the returned table
    \* ---- rolling_forecast_cv (forecasting.py)
    split_outcomes,         \* per split: where its processing raised ("ok": nowhere)
    all_predictions,        \* result["predictions"]
    daily_metrics,          \* result["daily_metrics"]
    overall_performance,     \* result["overall_performance"]
    \* ---- day_ahead_forecast (forecasting.py)
    forecast_date,          \* the forecast_date argument: None, a string or a date object
    today,                  \* datetime.now().date()
    training_days,          \* the training_days argument
    polynomial_degree,      \* the polynomial_degree argument
    answers,                \* what each fetch of the call is answered
    requests,               \* the fetch_data calls made, in order
    result,                 \* the returned dictionary (none when the call raised)
    \* ---- ErcotAuth (auth.py)
    token,                  \* self._token: none, or the stored ErcotToken
    now,                    \* datetime.now(), in minutes
    logins,                 \* the login requests issued so far
    calls,                  \* the get_valid_token calls made so far
    returned,               \* what the last get_valid_token call returned (nothing when it raised)
    \* ---- endpoint catalog (endpoints.py)
    category,               \* the category asked of list_endpoints
    listed,                 \* the list list_endpoints returned
    info_name,              \* the name asked of get_endpoint_spec
    info,                   \* the EndpointSpec returned (none when it raised)
    \* ---- ErcotAPIClient.fetch_data (client.py)
    fetch_args,             \* the arguments of the fetch_data call
    env_key,                \* whether ERCOTKEY is set in the environment
    http_gets,              \* the HTTP GET requests issued, in order
    \* ---- call_tool (main.py)
    tool_name,              \* the name argument of call_tool
    arguments,              \* the arguments argument: a dictionary, or not one
    operation_outcome,      \* how the operations behind the tool fare on this call
    tool_result,            \* the returned list of TextContent (none when the call raised)
    operations             \* the operations the call invoked, in order

vars == <<call, raised, endpoint_name, date_from, date_to, postedDatetimeTo, dat, dat_written,
          datout, data,
          initial_training_days, expanding_window, splits, df, df_out,
          used_pattern, date, hour_ending, hour_result, names_df, names_out,
          solar_fetched, wind_fetched, load_fetched, net_load,
          split_outcomes, all_predictions, daily_metrics, overall_performance,
          forecast_date, today, training_days, polynomial_degree, answers, requests, result,
          token, now, logins, calls, returned,
          category, listed, info_name, info,
          fetch_args, env_key, http_gets,
          tool_name, arguments, operation_outcome, tool_result, operations>>

vintageVars == <<endpoint_name, date_from, date_to, postedDatetimeTo, dat, dat_written, datout>>
splitVars   == <<data, initial_training_days, expanding_window, splits>>
dtVars      == <<df, df_out, used_pattern>>
hourVars    == <<date, hour_ending, hour_result>>
namesVars   == <<names_df, names_out>>
netVars     == <<solar_fetched, wind_fetched, load_fetched, net_load>>
cvVars      == <<split_outcomes, all_predictions, daily_metrics, overall_performance>>
dafVars == <<forecast_date, today, training_days, polynomial_degree, answers, requests, result>>
authVars == <<token, now, logins, calls, returned>>
catalogVars == <<category, listed, info_name, info>>
fetchVars == <<fetch_args, env_key, http_gets>>
toolVars == <<tool_name, arguments, operation_outcome, tool_result, operations>>

-----------------------------------------------------------------------------
(* Bounds of the model *)

MaxRows == 2            \* rows of a forecast table
MaxSplitRows == 3       \* rows of a table handed to create_rolling_splits
MaxTrainDays == 3       \* largest initial_training_days tried
MaxDfRows == 2          \* rows of a table handed to add_datetime_column
MaxNameLen == 4         \* characters of a generated column name
MaxNameRows == 1        \* rows of a table handed to normalize_column_names
MaxLoadRows == 2        \* rows of a fetched load forecast table
MaxRequestDay == 7      \* last day a request may name
MaxNetRows == 2         \* rows of a table fetched for get_net_load_forecast

-----------------------------------------------------------------------------
(* Values *)

Null == 0 - 1           \* NaT / NaN: a missing parsed value
NullStr == << >>        \* None: a missing value as the API sends it

MinutesPerDay == 24 * 60

\* timedelta(days=d, hours=h, minutes=m) in minutes
timedelta(d, h, m) == d * MinutesPerDay + h * 60 + m

\* pd.to_datetime of one cell: "YYYY-MM-DD" is <<day>>, "YYYY-MM-DDTHH:MM:SS" is
\* <<day, hour, minute>>, None is << >> and parses to NaT.
to_datetime(s) ==
    IF s = NullStr THEN Null
    ELSE IF Len(s) = 1 THEN timedelta(s[1], 0, 0)
    ELSE timedelta(s[1], s[2], s[3])

\* Timestamp.date(): the calendar day of a parsed timestamp
DateOf(t) == IF t = Null THEN Null ELSE t \div MinutesPerDay

\* strftime("%Y-%m-%dT%H:%M:%S") of a parsed timestamp
strftime(t) == << t \div MinutesPerDay, (t % MinutesPerDay) \div 60, t % 60 >>

\* Timestamp + Timedelta, Timedelta + Timedelta: missing when either side is
\* missing (NaT + x is NaT)
Plus(a, b) == IF a = Null \/ b = Null THEN Null ELSE a + b

\* pd.to_timedelta(value, unit="h") and unit="m" with a factor, in minutes; a
\* missing value gives NaT
to_timedelta(value, minutes) == IF value = Null THEN Null ELSE value * minutes

Range(s) == { s[i] : i \in DOMAIN s }

SeqsUpTo(S, n) == UNION { [1..m -> S] : m \in 0..n }

Max(S) == CHOOSE x \in S : \A y \in S : y <= x

\* the elements of a finite set of integers, ascending (Python's sorted())
RECURSIVE sorted(_)
sorted(S) ==
    IF S = {} THEN << >>
    ELSE LET m == CHOOSE x \in S : \A y \in S : x <= y
         IN  <<m>> \o sorted(S \ {m})

-----------------------------------------------------------------------------
(* Vintage forecast selector: server/load.py *)

\* DataFrame.sort_values(["DATETIME", "PostedDatetime"]): ascending, a missing
\* key after every present one (na_position="last"), equal keys in input order.
KeyLess(a, b) == a # Null /\ (b = Null \/ a < b)

RowLess(r1, r2) ==
    \/ KeyLess(r1["DATETIME"], r2["DATETIME"])
    \/ /\ r1["DATETIME"] = r2["DATETIME"]
       /\ KeyLess(r1["PostedDatetime"], r2["PostedDatetime"])

\* r put into the sorted table s behind every row that is not greater than it
InsertSorted(s, r) ==
    LET keep == { i \in DOMAIN s : ~ RowLess(r, s[i]) }
        n == IF keep = {} THEN 0 ELSE Max(keep)
    IN  SubSeq(s, 1, n) \o <<r>> \o SubSeq(s, n + 1, Len(s))

RECURSIVE sort_values(_)
sort_values(t) ==
    IF t = << >> THEN << >>
    ELSE InsertSorted(sort_values(SubSeq(t, 1, Len(t) - 1)), t[Len(t)])

\* GroupBy.last() of one column: the last value of the group that is not
\* missing, and a missing value when the group has none.
LastInGroup(s, key, c) ==
    LET present == { i \in DOMAIN s : s[i]["DATETIME"] = key /\ s[i][c] # Null }
    IN  IF present = {} THEN Null ELSE s[Max(present)][c]

\* GroupBy.first() of one column
FirstInGroup(s, key, c) ==
    LET present == { i \in DOMAIN s : s[i]["DATETIME"] = key /\ s[i][c] # Null }
    IN  IF present = {} THEN Null
        ELSE s[CHOOSE i \in present : \A j \in present : i <= j][c]

\* df.groupby("DATETIME").last().reset_index(): one row per key that is not
\* missing (groupby drops the rows whose key is NaT), keys ascending.
groupby_last(s) ==
    LET keys == sorted({ s[i]["DATETIME"] : i \in DOMAIN s } \ {Null})
    IN  [ j \in 1..Len(keys) |->
            [ c \in DOMAIN s[1] |->
                IF c = "DATETIME" THEN keys[j] ELSE LastInGroup(s, keys[j], c) ] ]

\* df.groupby("DATETIME").first().reset_index()
groupby_first(s) ==
    LET keys == sorted({ s[i]["DATETIME"] : i \in DOMAIN s } \ {Null})
    IN  [ j \in 1..Len(keys) |->
            [ c \in DOMAIN s[1] |->
                IF c = "DATETIME" THEN keys[j] ELSE FirstInGroup(s, keys[j], c) ] ]

\* df["PostedDatetime"] = pd.to_datetime(df["PostedDatetime"])
ParsePosted(t) ==
    IF "PostedDatetime" \in DOMAIN t[1]
    THEN [ i \in DOMAIN t |-> [ t[i] EXCEPT !["PostedDatetime"] = to_datetime(@) ] ]
    ELSE t

\* the selector keeping the earliest posting of each DATETIME instead
filter_forecast_by_posted_first(t) ==
    IF t = << >> THEN t ELSE groupby_first(sort_values(ParsePosted(t)))

filter_forecast_by_posted(t) ==
    IF t = << >> THEN t ELSE groupby_last(sort_values(ParsePosted(t)))

\* DataFrame.drop(columns=...)
DropColumns(t, cols) ==
    [ i \in DOMAIN t |-> [ c \in DOMAIN t[i] \ cols |-> t[i][c] ] ]

drop_cols == {"DSTFlag", "HourEnding", "DeliveryDate"}

\* posted_datetime_cutoff: 7am the day before date_to
PostedDatetimeCutoff(dt) ==
    strftime(to_datetime(dt) - timedelta(1, 0, 0) + timedelta(0, 7, 0))

\* get_vintage_forecast on the fetched table, for the solar and wind
\* endpoints (the branch that is not the zone load forecast's)
VintageOf(t) ==
    IF t = << >> THEN t
    ELSE LET out == filter_forecast_by_posted(t)
             cols_to_drop == drop_cols \cap (IF out = << >> THEN {} ELSE DOMAIN out[1])
         IN  IF cols_to_drop # {} THEN DropColumns(out, cols_to_drop) ELSE out

\* ---- inputs
ForecastEndpoints == {"solar_system_forecast", "wind_system_forecast"}
DateStrings == { <<1>>, <<2>> }
DeliveryTimes == { timedelta(1, 1, 0), timedelta(1, 2, 0) }
PostedStrings == { <<0, 6, 0>>, <<0, 8, 0>> }
ForecastValues == { 10, 20 }

ForecastRows ==
    { [ c \in {"DATETIME", "PostedDatetime", "COPHSLSystemWide", "DSTFlag"} |->
          CASE c = "DATETIME" -> d
            [] c = "PostedDatetime" -> p
            [] c = "COPHSLSystemWide" -> v
            [] OTHER -> 0 ] :
        d \in DeliveryTimes \cup {Null},
        p \in PostedStrings \cup {NullStr},
        v \in ForecastValues \cup {Null} }

\* no column of the table passed in was assigned
NothingWritten == [ columns |-> {}, cells |-> << >> ]

IdleVintage ==
    /\ endpoint_name = "" /\ date_from = NullStr /\ date_to = NullStr
    /\ postedDatetimeTo = NullStr
    /\ dat = << >> /\ dat_written = NothingWritten /\ datout = << >>

InitVintage ==
    /\ call = "none" /\ raised = "none"
    /\ endpoint_name \in ForecastEndpoints
    /\ date_to \in DateStrings
    /\ date_from = date_to
    /\ postedDatetimeTo = NullStr
    /\ dat \in SeqsUpTo(ForecastRows, MaxRows)
    /\ dat_written = NothingWritten
    /\ datout = << >>

\* a direct call filter_forecast_by_posted(dat): the PostedDatetime column of
\* the table passed in is assigned its parsed values before the function goes
\* on with a table of its own
FilterForecastByPosted ==
    /\ call = "none"
    /\ call' = "filter_forecast_by_posted"
    /\ datout' = filter_forecast_by_posted(dat)
    /\ dat_written' =
          IF dat # << >> /\ "PostedDatetime" \in DOMAIN dat[1]
          THEN [ columns |-> {"PostedDatetime"},
                 cells |-> [ i \in DOMAIN dat |-> to_datetime(dat[i]["PostedDatetime"]) ] ]
          ELSE NothingWritten
    /\ UNCHANGED <<raised, endpoint_name, date_from, date_to, postedDatetimeTo, dat>>

-----------------------------------------------------------------------------
(* Rolling split generator: server/forecasting.py *)

\* Python's seq[a:b] and seq[i], indices from 0
Slice(s, a, b) == SubSeq(s, a + 1, b)
At(s, i) == s[i + 1]

\* data["Date"] = pd.to_datetime(data["DATETIME"]).dt.date, when data has no
\* Date column
EnsureDate(t) ==
    IF t # << >> /\ "Date" \notin DOMAIN t[1]
    THEN [ i \in DOMAIN t |->
            [ c \in DOMAIN t[i] \cup {"Date"} |->
                IF c = "Date" THEN DateOf(t[i]["DATETIME"]) ELSE t[i][c] ] ]
    ELSE t

\* sorted(data["Date"].unique())
unique_dates(t) == sorted({ t[i]["Date"] : i \in DOMAIN t })

\* the guard written n_dates < initial_training_days
NotEnoughDaysStrict(n_dates, k) == n_dates < k

\* the guard of the insufficient-data error
NotEnoughDays(n_dates, k) == n_dates <= k

\* range(initial_training_days + 1, n_dates)
TestIndicesLate(k, n_dates) == (k + 1)..(n_dates - 1)

\* range(initial_training_days, n_dates)
TestIndices(k, n_dates) == k..(n_dates - 1)

\* training windows that run up to and including the test date
train_dates_leaky(dates, i, k, expanding) ==
    IF expanding THEN Slice(dates, 0, i + 1)
    ELSE Slice(dates, IF i - k > 0 THEN i - k ELSE 0, i + 1)

\* the expanding window whatever the mode
train_dates_unwindowed(dates, i, k, expanding) == Slice(dates, 0, i)

\* the training dates of the split whose test date is unique_dates[i]
train_dates(dates, i, k, expanding) ==
    IF expanding THEN Slice(dates, 0, i)
    ELSE LET start_idx == IF i - k > 0 THEN i - k ELSE 0
         IN  Slice(dates, start_idx, i)

\* data[mask].copy(): the rows the mask keeps, each under its index label
Indexed(t) == [ i \in DOMAIN t |-> [ index |-> i, row |-> t[i] ] ]

RowsWithDateIn(t, S) == SelectSeq(Indexed(t), LAMBDA x : x.row["Date"] \in S)

\* one pass of the loop body; << >> when the split is not emitted
SplitAt(t, dates, i, k, expanding) ==
    LET test_date == At(dates, i)
        train_data == RowsWithDateIn(t, Range(train_dates(dates, i, k, expanding)))
        test_data == RowsWithDateIn(t, {test_date})
    IN  IF Len(train_data) > 0 /\ Len(test_data) > 0
        THEN << [ train_data |-> train_data, test_data |-> test_data,
                  test_date |-> test_date ] >>
        ELSE << >>

\* the loop over i in idx (ascending)
RECURSIVE SplitsOver(_, _, _, _, _)
SplitsOver(t, dates, idx, k, expanding) ==
    IF idx = {} THEN << >>
    ELSE LET i == CHOOSE x \in idx : \A y \in idx : x <= y
         IN  SplitAt(t, dates, i, k, expanding)
               \o SplitsOver(t, dates, idx \ {i}, k, expanding)

\* ---- inputs
SplitDays == 0..3
SplitHours == {0, 23}
SplitTimes == { timedelta(d, h, 0) : d \in SplitDays, h \in SplitHours }

\* a table as rolling_forecast_cv hands it over (with its Date column) or
\* with DATETIME only
SplitTables ==
    LET raw == SeqsUpTo([ {"DATETIME"} -> SplitTimes ], MaxSplitRows)
    IN  raw \cup { EnsureDate(t) : t \in raw }

IdleSplits ==
    /\ data = << >> /\ initial_training_days = 0
    /\ expanding_window = TRUE /\ splits = << >>

InitSplits ==
    /\ call = "none" /\ raised = "none"
    /\ data \in SplitTables
    /\ initial_training_days \in 0..MaxTrainDays
    /\ expanding_window \in BOOLEAN
    /\ splits = << >>

\* create_rolling_splits(data, initial_training_days, expanding_window)
CreateRollingSplits ==
    /\ call = "none"
    /\ call' = "create_rolling_splits"
    /\ data' = EnsureDate(data)
    /\ LET dates == unique_dates(data')
           n_dates == Len(dates)
       IN  IF NotEnoughDays(n_dates, initial_training_days)
           THEN /\ raised' = "ValueError"
                /\ splits' = << >>
           ELSE /\ raised' = "none"
                /\ splits' = SplitsOver(data', dates,
                                        TestIndices(initial_training_days, n_dates),
                                        initial_training_days, expanding_window)
    /\ UNCHANGED <<initial_training_days, expanding_window>>

-----------------------------------------------------------------------------
(* Hour-ending resolution: server/utils.py *)

\* A string is a sequence of one-character strings.  An hour-ending cell is an
\* integer or a string: [isstr |-> FALSE, n |-> 24] or
\* [isstr |-> TRUE, s |-> <<"2", "4", ":", "0", "0">>].
Digits == <<"0", "1", "2", "3", "4", "5", "6", "7", "8", "9">>

DigitValue(ch) == (CHOOSE i \in DOMAIN Digits : Digits[i] = ch) - 1

\* int(s) of a string of decimal digits
RECURSIVE int(_)
int(s) ==
    IF s = << >> THEN 0
    ELSE 10 * int(SubSeq(s, 1, Len(s) - 1)) + DigitValue(s[Len(s)])

\* s.split(":")[0]
SplitColonFirst(s) ==
    LET colons == { i \in DOMAIN s : s[i] = ":" }
    IN  IF colons = {} THEN s
        ELSE SubSeq(s, 1, (CHOOSE i \in colons : \A j \in colons : i <= j) - 1)

Str2400 == <<"2", "4", ":", "0", "0">>

IntHour(n) == [isstr |-> FALSE, n |-> n, s |-> << >>]
StrHour(s) == [isstr |-> TRUE, n |-> 0, s |-> s]

\* a missing hour-ending cell: NaN in a column of numbers, None in a column
\* of strings; neither is a str
NaNHour == IntHour(Null)
NoneHour == [isstr |-> FALSE, n |-> Null, s |-> <<"N", "o", "n", "e">>]

\* the exception parse_hour_ending raises: int(hour_ending) of NaN is a
\* ValueError, of None a TypeError
parse_hour_ending_error(he) ==
    IF he = NaNHour THEN "ValueError"
    ELSE IF he = NoneHour THEN "TypeError"
    ELSE "none"

\* hour-ending 24 read as midnight of the next day
parse_hour_ending_midnight(base, he) ==
    IF he.isstr
    THEN IF he.s = Str2400
         THEN Plus(base, timedelta(1, 0, 0))
         ELSE Plus(base, timedelta(0, int(SplitColonFirst(he.s)), 0) - timedelta(0, 1, 0))
    ELSE Plus(base, timedelta(0, he.n, 0) - timedelta(0, 1, 0))

\* parse_hour_ending(date, hour_ending), when it does not raise
parse_hour_ending(base, he) ==
    IF he.isstr
    THEN IF he.s = Str2400
         THEN Plus(base, timedelta(1, 0, 0) - timedelta(0, 1, 0))
         ELSE LET hour == int(SplitColonFirst(he.s))
              IN  Plus(base, timedelta(0, hour, 0) - timedelta(0, 1, 0))
    ELSE Plus(base, timedelta(0, he.n, 0) - timedelta(0, 1, 0))

\* ---- inputs
\* the string "HH:00" of an hour
HourString(h) == << Digits[(h \div 10) + 1], Digits[(h % 10) + 1], ":", "0", "0" >>

HourEndings == { IntHour(h) : h \in 1..24 } \cup { StrHour(HourString(h)) : h \in 1..24 }

BaseDates == { to_datetime(<<d>>) : d \in 0..2 }

IdleHour == date = Null /\ hour_ending = IntHour(0) /\ hour_result = Null

InitHour ==
    /\ call = "none" /\ raised = "none"
    /\ date \in BaseDates
    /\ hour_ending \in HourEndings
    /\ hour_result = Null

\* parse_hour_ending(date, hour_ending)
ParseHourEnding ==
    /\ call = "none"
    /\ call' = "parse_hour_ending"
    /\ hour_result' = parse_hour_ending(date, hour_ending)
    /\ UNCHANGED <<raised, date, hour_ending>>

-----------------------------------------------------------------------------
(* Timestamp resolver: server/utils.py *)

\* A table here is [columns |-> set of names, rows |-> sequence of rows].

\* the branch of add_datetime_column's if-chain that a set of columns takes
\* (0: no branch, the warning)
ResolvedPattern(cols) ==
    IF "DeliveryInterval" \in cols THEN 1
    ELSE IF "IntervalEnding" \in cols THEN 2
    ELSE IF "OperatingDay" \in cols /\ "HourEnding" \in cols THEN 3
    ELSE IF "OperatingDate" \in cols /\ "HourEnding" \in cols THEN 4
    ELSE IF "DeliveryHour" \in cols /\ "DeliveryDate" \in cols THEN 5
    ELSE IF "DeliveryDate" \in cols /\ "HourEnding" \in cols THEN 6
    ELSE IF "SCEDTimestamp" \in cols \/ "SCEDTimeStamp" \in cols THEN 7
    ELSE 0

\* the columns each branch reads
ColumnsRead(p, cols) ==
    CASE p = 1 -> {"DeliveryDate", "DeliveryHour", "DeliveryInterval"}
      [] p = 2 -> {"IntervalEnding"}
      [] p = 3 -> {"OperatingDay", "HourEnding"}
      [] p = 4 -> {"OperatingDate", "HourEnding"}
      [] p = 5 -> {"DeliveryDate", "DeliveryHour"}
      [] p = 6 -> {"DeliveryDate", "HourEnding"}
      [] p = 7 -> IF "SCEDTimestamp" \in cols THEN {"SCEDTimestamp"}
                  ELSE {"SCEDTimeStamp"}
      [] OTHER -> {}

\* pattern 5 read as an hour-ending value
DeliveryHourDatetimeEnding(row) ==
    Plus(Plus(to_datetime(row["DeliveryDate"]), to_timedelta(row["DeliveryHour"], 60)),
         0 - timedelta(0, 1, 0))

\* pattern 5: DeliveryDate + DeliveryHour hours
DeliveryHourDatetime(row) ==
    Plus(to_datetime(row["DeliveryDate"]), to_timedelta(row["DeliveryHour"], 60))

\* pattern 1: DeliveryDate + DeliveryHour hours + DeliveryInterval * 5 minutes
DeliveryIntervalDatetime(row) ==
    Plus(Plus(to_datetime(row["DeliveryDate"]), to_timedelta(row["DeliveryHour"], 60)),
         to_timedelta(row["DeliveryInterval"], 5))

\* the DATETIME a branch gives a row
RowDatetime(p, cols, row) ==
    CASE p = 1 -> DeliveryIntervalDatetime(row)
      [] p = 2 -> to_datetime(row["IntervalEnding"])
      [] p = 3 -> parse_hour_ending(to_datetime(row["OperatingDay"]), row["HourEnding"])
      [] p = 4 -> parse_hour_ending(to_datetime(row["OperatingDate"]), row["HourEnding"])
      [] p = 5 -> DeliveryHourDatetime(row)
      [] p = 6 -> parse_hour_ending(to_datetime(row["DeliveryDate"]), row["HourEnding"])
      [] p = 7 -> IF "SCEDTimestamp" \in cols THEN to_datetime(row["SCEDTimestamp"])
                  ELSE to_datetime(row["SCEDTimeStamp"])

\* df["DATETIME"] = ...
WithDatetime(t, p) ==
    [ columns |-> t.columns \cup {"DATETIME"},
      rows |-> [ i \in DOMAIN t.rows |->
                   [ c \in t.columns \cup {"DATETIME"} |->
                       IF c = "DATETIME" THEN RowDatetime(p, t.columns, t.rows[i])
                       ELSE t.rows[i][c] ] ] ]

NoTable == [ columns |-> {}, rows |-> << >> ]

\* the exception df.apply(lambda row: parse_hour_ending(...), axis=1) raises:
\* the one of the first row that raises ("none" when no row does)
ApplyError(p, rows) ==
    LET bad == { i \in DOMAIN rows :
                   parse_hour_ending_error(rows[i]["HourEnding"]) # "none" }
    IN  IF p \in {3, 4, 6} /\ bad # {}
        THEN parse_hour_ending_error(
                 rows[CHOOSE i \in bad : \A j \in bad : i <= j]["HourEnding"])
        ELSE "none"

\* add_datetime_column(df): the exception raised, the branch taken and the
\* table returned (a copy; none when it raises)
add_datetime_column(t) ==
    LET p == ResolvedPattern(t.columns)
    IN  IF p = 0
        THEN [ raised |-> "none", pattern |-> 0, out |-> t ]
        ELSE IF ~ (ColumnsRead(p, t.columns) \subseteq t.columns)
        THEN [ raised |-> "KeyError", pattern |-> p,
               out |-> NoTable ]
        ELSE IF ApplyError(p, t.rows) # "none"
        THEN [ raised |-> ApplyError(p, t.rows), pattern |-> p, out |-> NoTable ]
        ELSE [ raised |-> "none", pattern |-> p, out |-> WithDatetime(t, p) ]

\* ---- inputs
TimeColumns == { "DeliveryDate", "DeliveryHour", "DeliveryInterval", "IntervalEnding",
                 "OperatingDay", "OperatingDate", "HourEnding", "SCEDTimestamp",
                 "SCEDTimeStamp" }
AllColumns == TimeColumns \cup {"SettlementPointPrice"}

\* full rows; a table's rows are some of these cut down to the table's columns
SampleRow(dd, dh, di, ie, od, odate, he, sced, price) ==
    [ c \in AllColumns |->
        CASE c = "DeliveryDate" -> dd
          [] c = "DeliveryHour" -> dh
          [] c = "DeliveryInterval" -> di
          [] c = "IntervalEnding" -> ie
          [] c = "OperatingDay" -> od
          [] c = "OperatingDate" -> odate
          [] c = "HourEnding" -> he
          [] c = "SCEDTimestamp" -> sced
          [] c = "SCEDTimeStamp" -> IF sced = NullStr THEN NullStr
                                    ELSE <<sced[1], sced[2], sced[3] + 5>>
          [] OTHER -> price ]

SampleRows ==
    { SampleRow(<<1>>, 1, 0, <<1, 12, 5>>, <<2>>, <<3>>, IntHour(1), <<4, 12, 5>>, 25),
      SampleRow(<<2>>, 13, 11, <<2, 0, 0>>, <<3>>, <<4>>, StrHour(Str2400), <<5, 0, 10>>, 30),
      SampleRow(<<1>>, 24, 3, <<1, 23, 55>>, <<1>>, <<2>>, StrHour(HourString(13)), <<3, 6, 0>>, 25),
      SampleRow(<<3>>, 0, 1, <<3, 0, 5>>, <<4>>, <<5>>, IntHour(24), <<6, 23, 50>>, 40) }

Restrict(row, cols) == [ c \in cols |-> row[c] ]

DfTables ==
    { [ columns |-> cols, rows |-> [ i \in DOMAIN rs |-> Restrict(rs[i], cols) ] ] :
        cols \in SUBSET AllColumns,
        rs \in SeqsUpTo(SampleRows, MaxDfRows) \ { << >> } }

\* rows with missing cells: every date missing and the hour-ending NaN; the
\* hours missing and the hour-ending None
NullRows ==
    { SampleRow(NullStr, 5, 2, NullStr, NullStr, NullStr, NaNHour, NullStr, 25),
      SampleRow(<<1>>, Null, Null, <<1, 0, 0>>, <<1>>, <<2>>, NoneHour, <<1, 0, 0>>, Null) }

\* tables whose rows may have missing cells
NullableDfTables ==
    { [ columns |-> cols, rows |-> [ i \in DOMAIN rs |-> Restrict(rs[i], cols) ] ] :
        cols \in SUBSET AllColumns,
        rs \in SeqsUpTo(SampleRows \cup NullRows, MaxDfRows) \ { << >> } }

IdleDatetime == df = NoTable /\ df_out = NoTable /\ used_pattern = 0

InitDatetime ==
    /\ call = "none" /\ raised = "none"
    /\ df \in DfTables
    /\ df_out = NoTable
    /\ used_pattern = 0

InitDatetimeNulls ==
    /\ call = "none" /\ raised = "none"
    /\ df \in NullableDfTables
    /\ df_out = NoTable
    /\ used_pattern = 0

\* add_datetime_column(df)
AddDatetimeColumn ==
    /\ call = "none"
    /\ call' = "add_datetime_column"
    /\ LET r == add_datetime_column(df)
       IN  /\ raised' = r.raised
           /\ used_pattern' = r.pattern
           /\ df_out' = r.out
    /\ UNCHANGED df

-----------------------------------------------------------------------------
(* Column name normalizer: server/utils.py *)

\* A column name is a string, that is a sequence of one-character strings.
\* A table here is [columns |-> sequence of names, rows |-> sequence of rows],
\* a row being the sequence of its cells in column order.

Lowers == <<"a", "b", "c", "d", "e", "f", "g", "h", "i", "j", "k", "l", "m",
            "n", "o", "p", "q", "r", "s", "t", "u", "v", "w", "x", "y", "z">>
Uppers == <<"A", "B", "C", "D", "E", "F", "G", "H", "I", "J", "K", "L", "M",
            "N", "O", "P", "Q", "R", "S", "T", "U", "V", "W", "X", "Y", "Z">>

\* str.isupper, str.islower, str.isdigit of one character
isupper(ch) == ch \in Range(Uppers)
islower(ch) == ch \in Range(Lowers)
isdigit(ch) == ch \in Range(Digits)

\* str.upper and str.lower of one character
upper(ch) == IF islower(ch) THEN Uppers[CHOOSE i \in DOMAIN Lowers : Lowers[i] = ch] ELSE ch
lower(ch) == IF isupper(ch) THEN Lowers[CHOOSE i \in DOMAIN Uppers : Uppers[i] = ch] ELSE ch

\* name.replace("-", "_").replace(" ", "_")
replace_separators(name) ==
    [ i \in DOMAIN name |-> IF name[i] \in {"-", " "} THEN "_" ELSE name[i] ]

\* ''.join(parts)
RECURSIVE join(_)
join(parts) == IF parts = << >> THEN << >> ELSE Head(parts) \o join(Tail(parts))

\* re.sub('([a-z0-9])([A-Z])', r'\1_\2', name): an underscore between a
\* lower-case letter or digit and the upper-case letter that follows it (the
\* matches cannot overlap: the second character of one is upper-case)
re_sub(name) ==
    join([ i \in DOMAIN name |->
             IF /\ i < Len(name)
                /\ (islower(name[i]) \/ isdigit(name[i]))
                /\ isupper(name[i + 1])
             THEN <<name[i], "_">>
             ELSE <<name[i]>> ])

\* name.split('_'), empty parts included
RECURSIVE split(_)
split(name) ==
    LET us == { i \in DOMAIN name : name[i] = "_" }
    IN  IF us = {} THEN <<name>>
        ELSE LET i == CHOOSE x \in us : \A y \in us : x <= y
             IN  <<SubSeq(name, 1, i - 1)>> \o split(SubSeq(name, i + 1, Len(name)))

\* a part left as it is
capitalize_not(part) == part

\* str.capitalize: the first character upper-cased, the others lower-cased
capitalize(part) ==
    [ i \in DOMAIN part |-> IF i = 1 THEN upper(part[i]) ELSE lower(part[i]) ]

to_pascal_case(col) ==
    LET name == replace_separators(col)
    IN  IF name # << >> /\ isupper(name[1]) /\ "_" \notin Range(name)
        THEN name
        ELSE LET parts == SelectSeq(split(re_sub(name)), LAMBDA part : part # << >>)
             IN  join([ i \in DOMAIN parts |-> capitalize(parts[i]) ])

\* normalize_column_names(df): a copy with every column renamed
normalize_column_names(t) ==
    [ columns |-> [ i \in DOMAIN t.columns |-> to_pascal_case(t.columns[i]) ],
      rows |-> t.rows ]

\* ---- inputs
NameAlphabet == {"a", "B", "1", "_", " ", "-"}

DeliveryDateSpellings ==
    { <<"d", "e", "l", "i", "v", "e", "r", "y", "D", "a", "t", "e">>,
      <<"d", "e", "l", "i", "v", "e", "r", "y", "_", "d", "a", "t", "e">>,
      <<"D", "e", "l", "i", "v", "e", "r", "y", " ", "D", "a", "t", "e">>,
      <<"D", "e", "l", "i", "v", "e", "r", "y", "-", "D", "a", "t", "e">> }

\* first columns: every short name over the alphabet, and spelled-out names
ColumnNames ==
    SeqsUpTo(NameAlphabet, MaxNameLen) \cup DeliveryDateSpellings
        \cup { <<"s", "e", "t", "t", "l", "e", "m", "e", "n", "t", "P", "o", "i", "n", "t", "P", "r", "i", "c", "e">> }

\* second columns
OtherColumnNames ==
    { <<"H", "o", "u", "r", " ", "E", "n", "d", "i", "n", "g">>, <<"D", "S", "T", "F", "l", "a", "g">> }

NameColumns ==
    { <<n>> : n \in ColumnNames } \cup { <<n, o>> : n \in ColumnNames, o \in OtherColumnNames }

NoNamesTable == [ columns |-> << >>, rows |-> << >> ]

NamesTables ==
    { [ columns |-> cols,
        rows |-> [ i \in 1..n |-> [ j \in DOMAIN cols |-> 10 * i + j ] ] ] :
        cols \in NameColumns, n \in 0..MaxNameRows }

IdleNames == names_df = NoNamesTable /\ names_out = NoNamesTable

InitNames ==
    /\ call = "none" /\ raised = "none"
    /\ names_df \in NamesTables
    /\ names_out = NoNamesTable

\* normalize_column_names(df)
NormalizeColumnNames ==
    /\ call = "none"
    /\ call' = "normalize_column_names"
    /\ names_out' = normalize_column_names(names_df)
    /\ UNCHANGED <<raised, names_df>>

\* normalize_column_names(normalize_column_names(df)): the second call, on
\* the table the first returned
NormalizeColumnNamesAgain ==
    /\ call = "normalize_column_names"
    /\ call' = "normalize_column_names twice"
    /\ names_df' = names_out
    /\ names_out' = normalize_column_names(names_out)
    /\ UNCHANGED raised

-----------------------------------------------------------------------------
(* Vintage forecast selector, the load forecast's branch: server/load.py *)

\* A model name (a cell of the Model column) is its index in ModelNames.
ModelNames == << <<"E", "1">>, <<"E", "2">>, <<"X">>, <<"Y">> >>

\* the spelling of the column names
Spelling(c) ==
    CASE c = "DATETIME" -> <<"D", "A", "T", "E", "T", "I", "M", "E">>
      [] c = "Model" -> <<"M", "o", "d", "e", "l">>
      [] c = "SystemTotal" -> <<"S", "y", "s", "t", "e", "m", "T", "o", "t", "a", "l">>
      [] c = "PostedDatetime" -> <<"P", "o", "s", "t", "e", "d", "D", "a", "t", "e", "t", "i", "m", "e">>
      [] c = "DSTFlag" -> <<"D", "S", "T", "F", "l", "a", "g">>
      [] c = "COPHSLSystemWide" -> <<"C", "O", "P", "H", "S", "L", "S", "y", "s", "t", "e", "m", "W", "i", "d", "e">>
      [] c = "COPHSLSystemWide2" -> <<"C", "O", "P", "H", "S", "L", "S", "y", "s", "t", "e", "m", "W", "i", "d", "e", "2">>
      [] c = "GenerationSystemWide" -> <<"G", "e", "n", "e", "r", "a", "t", "i", "o", "n", "S", "y", "s", "t", "e", "m", "W", "i", "d", "e">>
      [] c = "SolarHSLSystemWide" -> <<"S", "o", "l", "a", "r", "H", "S", "L", "S", "y", "s", "t", "e", "m", "W", "i", "d", "e">>
      [] c = "WindHSLSystemWide" -> <<"W", "i", "n", "d", "H", "S", "L", "S", "y", "s", "t", "e", "m", "W", "i", "d", "e">>
      [] c = "MedianLoadForecast" -> <<"M", "e", "d", "i", "a", "n", "L", "o", "a", "d", "F", "o", "r", "e", "c", "a", "s", "t">>
      [] c = "HSLSystemWide" -> <<"H", "S", "L", "S", "y", "s", "t", "e", "m", "W", "i", "d", "e">>
      [] c = "Renewables" -> <<"R", "e", "n", "e", "w", "a", "b", "l", "e", "s">>
      [] c = "NetLoad" -> <<"N", "e", "t", "L", "o", "a", "d">>

\* sub in s, for strings
Contains(s, sub) ==
    \E i \in 1..(Len(s) - Len(sub) + 1) : SubSeq(s, i, i + Len(sub) - 1) = sub

LowerCased(s) == [ i \in DOMAIN s |-> lower(s[i]) ]

\* columns.str.contains("DATETIME|Model|SystemTotal|Posted", case=False)
cols_pattern(cols) ==
    { c \in cols :
        \E alt \in { <<"D", "A", "T", "E", "T", "I", "M", "E">>,
                     <<"M", "o", "d", "e", "l">>,
                     <<"S", "y", "s", "t", "e", "m", "T", "o", "t", "a", "l">>,
                     <<"P", "o", "s", "t", "e", "d">> } :
            Contains(LowerCased(Spelling(c)), LowerCased(alt)) }

\* the rows of the groups of dat.groupby("Model"), each group passed through
\* filter_forecast_by_posted, concatenated in the order of the group keys
\* (ascending; rows without a Model are in no group)
RECURSIVE ConcatFiltered(_, _)
ConcatFiltered(t, models) ==
    IF models = << >> THEN << >>
    ELSE filter_forecast_by_posted(SelectSeq(t, LAMBDA r : r["Model"] = Head(models)))
            \o ConcatFiltered(t, Tail(models))

\* the first SystemTotal that is not missing among the rows of one DATETIME
\* and one Model (aggfunc="first")
FirstTotal(t, d, model) ==
    LET hit == { i \in DOMAIN t : /\ t[i]["DATETIME"] = d /\ t[i]["Model"] = model
                                  /\ t[i]["SystemTotal"] # Null }
    IN  IF hit = {} THEN Null
        ELSE t[CHOOSE i \in hit : \A j \in hit : i <= j]["SystemTotal"]

\* pivot_table(index="DATETIME", columns="Model", values="SystemTotal",
\* aggfunc="first").reset_index(): one row per DATETIME and one column per
\* Model that have a SystemTotal, both ascending
pivot_table(t) ==
    LET valued == SelectSeq(t, LAMBDA r : /\ r["SystemTotal"] # Null
                                          /\ r["DATETIME"] # Null /\ r["Model"] # Null)
        keys == sorted(Range([ i \in DOMAIN valued |-> valued[i]["DATETIME"] ]))
        models == Range([ i \in DOMAIN valued |-> valued[i]["Model"] ])
    IN  [ j \in DOMAIN keys |->
            [ DATETIME |-> keys[j],
              totals |-> [ model \in models |-> FirstTotal(valued, keys[j], model) ] ] ]

\* the model columns the median is taken over: a name that starts with E, A,
\* M or X, followed by a digit
model_cols(models) ==
    { model \in models :
        LET col == ModelNames[model]
        IN  /\ col[1] \in {"E", "A", "M", "X"}
            /\ Len(col) > 1 /\ isdigit(col[2]) }

\* DataFrame.median(axis=1) over the given columns: the middle one of the
\* values that are not missing, the mean of the two middle ones when their
\* number is even (the inputs keep that mean whole)
median(totals, cols) ==
    LET present == SortSeq(SelectSeq(sorted(cols), LAMBDA model : totals[model] # Null),
                           LAMBDA a, b : totals[a] < totals[b])
        n == Len(present)
    IN  IF n = 0 THEN Null
        ELSE IF n % 2 = 1 THEN totals[present[(n + 1) \div 2]]
        ELSE (totals[present[n \div 2]] + totals[present[(n \div 2) + 1]]) \div 2

\* get_vintage_forecast on the fetched table, for "ercot_zone_load_forecast"
LoadVintageOf(t) ==
    LET kept == cols_pattern(DOMAIN t[1])
        sel == [ i \in DOMAIN t |-> [ c \in kept |-> t[i][c] ] ]
        models == sorted(Range([ i \in DOMAIN sel |-> sel[i]["Model"] ]) \ {Null})
        wide == pivot_table(ConcatFiltered(sel, models))
    IN  [ j \in DOMAIN wide |->
            LET named == model_cols(DOMAIN wide[j].totals)
            IN  [ DATETIME |-> wide[j].DATETIME,
                  MedianLoadForecast |->
                      IF named # {} THEN median(wide[j].totals, named)
                      ELSE median(wide[j].totals, DOMAIN wide[j].totals) ] ]

\* get_vintage_forecast(endpoint_name, ...) on the fetched table: the
\* exception raised and the table returned
get_vintage_forecast(endpoint, t) ==
    IF t = << >> THEN [ raised |-> "none", out |-> t ]
    ELSE IF endpoint = "ercot_zone_load_forecast"
    THEN IF "Model" \notin DOMAIN t[1]
         THEN [ raised |-> "KeyError", out |-> << >> ]
         ELSE [ raised |-> "none", out |-> LoadVintageOf(t) ]
    ELSE [ raised |-> "none", out |-> VintageOf(t) ]

\* the first date taken as the last date even when one is given
EndDateFrom(from, to) == from

\* date_to as get_vintage_forecast uses it: date_from when none is given
EndDate(from, to) == IF to = NullStr THEN from ELSE to

\* ---- inputs
LoadEndpoints == {"ercot_zone_load_forecast", "ercot_load_forecast"}
AllForecastEndpoints == ForecastEndpoints \cup LoadEndpoints
LoadTotals == { 40, 60 }

\* rows of a load forecast by model
LoadRows ==
    { [ c \in {"DATETIME", "Model", "SystemTotal", "PostedDatetime", "DSTFlag"} |->
          CASE c = "DATETIME" -> d
            [] c = "Model" -> model
            [] c = "SystemTotal" -> v
            [] c = "PostedDatetime" -> p
            [] OTHER -> 0 ] :
        d \in DeliveryTimes, model \in DOMAIN ModelNames, v \in LoadTotals,
        p \in PostedStrings }

InitLoadVintage ==
    /\ call = "none" /\ raised = "none"
    /\ endpoint_name \in LoadEndpoints
    /\ date_to \in DateStrings
    /\ date_from = date_to
    /\ postedDatetimeTo = NullStr
    /\ dat \in SeqsUpTo(LoadRows, MaxLoadRows)
    /\ dat_written = NothingWritten
    /\ datout = << >>

\* requests: every endpoint, a first date, a last date or none
RequestDates == { <<d>> : d \in 1..MaxRequestDay }

InitCutoff ==
    /\ call = "none" /\ raised = "none"
    /\ endpoint_name \in AllForecastEndpoints
    /\ date_from \in RequestDates
    /\ date_to \in RequestDates \cup {NullStr}
    /\ postedDatetimeTo = NullStr
    /\ dat = << >>
    /\ dat_written = NothingWritten
    /\ datout = << >>

\* get_vintage_forecast(endpoint_name, date_from, date_to): the fetch is sent
\* the cutoff and answers dat, whatever the server made of the cutoff
GetVintageForecast ==
    /\ call = "none"
    /\ endpoint_name \in AllForecastEndpoints
    /\ call' = "get_vintage_forecast"
    /\ postedDatetimeTo' = PostedDatetimeCutoff(EndDate(date_from, date_to))
    /\ LET r == get_vintage_forecast(endpoint_name, dat)
       IN  raised' = r.raised /\ datout' = r.out
    /\ UNCHANGED <<endpoint_name, date_from, date_to, dat, dat_written>>

-----------------------------------------------------------------------------
(* Net load composer: server/load.py *)

\* the order of the columns of a fetched table
ColumnOrder == << "DATETIME", "PostedDatetime", "Model", "SystemTotal",
                  "COPHSLSystemWide", "COPHSLSystemWide2", "GenerationSystemWide",
                  "HSLSystemWide", "DSTFlag" >>

\* the columns of the table get_vintage_forecast returns for the solar or the
\* wind endpoint (an empty fetch is a table without columns)
VintageColumns(fetched) ==
    IF fetched = << >> THEN {} ELSE DOMAIN fetched[1] \ drop_cols

\* [col for col in columns if "COPHSL" in col and "SystemWide" in col], in
\* column order
COPHSLSystemWideColumns(cols) ==
    SelectSeq(ColumnOrder,
              LAMBDA c : /\ c \in cols
                         /\ Contains(Spelling(c), <<"C", "O", "P", "H", "S", "L">>)
                         /\ Contains(Spelling(c), <<"S", "y", "s", "t", "e", "m", "W", "i", "d", "e">>))

\* the renewable table of one source: DATETIME and the matching columns, the
\* first of them renamed; DATETIME and a column of zeros when none matches.
\* A table without DATETIME column raises KeyError.
RenewableTable(fetched, canonical) ==
    LET vintage == VintageOf(fetched)
        cols == VintageColumns(fetched)
        hsl == COPHSLSystemWideColumns(cols)
        others == IF hsl = << >> THEN {} ELSE Range(Tail(hsl))
    IN  IF "DATETIME" \notin cols
        THEN [ raised |-> "KeyError", columns |-> {}, rows |-> << >> ]
        ELSE [ raised |-> "none",
               columns |-> {"DATETIME", canonical} \cup others,
               rows |-> [ i \in DOMAIN vintage |->
                   [ c \in {"DATETIME", canonical} \cup others |->
                       IF c = canonical
                       THEN IF hsl = << >> THEN 0 ELSE vintage[i][Head(hsl)]
                       ELSE vintage[i][c] ] ] ]

\* left.merge(right, on="DATETIME", how="left"): the rows of left in order,
\* each joined with every row of right of its DATETIME, or with missing
\* values when right has none (the tables share no other column)
RECURSIVE left_merge(_, _, _)
left_merge(left, right, rcols) ==
    IF left = << >> THEN << >>
    ELSE LET l == Head(left)
             hits == SelectSeq(right, LAMBDA r : r["DATETIME"] = l["DATETIME"])
             joined(r) == [ c \in DOMAIN l \cup rcols |->
                              IF c \in DOMAIN l THEN l[c] ELSE r[c] ]
             missing == [ c \in DOMAIN l \cup rcols |->
                              IF c \in DOMAIN l THEN l[c] ELSE Null ]
         IN  (IF hits = << >> THEN <<missing>>
              ELSE [ k \in DOMAIN hits |-> joined(hits[k]) ])
                 \o left_merge(Tail(left), right, rcols)

\* the sum of a set of numbers
RECURSIVE SumOver(_, _)
SumOver(row, cols) ==
    IF cols = {} THEN 0
    ELSE LET c == CHOOSE x \in cols : TRUE
         IN  (IF row[c] = Null THEN 0 ELSE row[c]) + SumOver(row, cols \ {c})

\* [col for col in dat.columns if "HSLSystemWide" in col]
hsl_cols(cols) ==
    { c \in cols : Contains(Spelling(c), <<"H", "S", "L", "S", "y", "s", "t", "e", "m", "W", "i", "d", "e">>) }

\* a - b of two cells, missing when either is
Minus(a, b) == IF a = Null \/ b = Null THEN Null ELSE a - b

\* dat["Renewables"] = dat[hsl_cols].sum(axis=1) (missing values skipped);
\* dat["NetLoad"] = dat["MedianLoadForecast"] - dat["Renewables"]
WithNetLoad(t) ==
    [ i \in DOMAIN t |->
        LET renewables == SumOver(t[i], hsl_cols(DOMAIN t[i]))
        IN  [ c \in DOMAIN t[i] \cup {"Renewables", "NetLoad"} |->
                IF c = "Renewables" THEN renewables
                ELSE IF c = "NetLoad" THEN Minus(t[i]["MedianLoadForecast"], renewables)
                ELSE t[i][c] ] ]

\* get_net_load_forecast on the three fetched tables: the exception raised
\* and the table returned
get_net_load_forecast(solar, wind, load) ==
    LET solar_gen == RenewableTable(solar, "SolarHSLSystemWide")
        wind_gen == RenewableTable(wind, "WindHSLSystemWide")
        load_forecast == get_vintage_forecast("ercot_zone_load_forecast", load)
    IN  IF solar_gen.raised # "none"
        THEN [ raised |-> solar_gen.raised, out |-> << >> ]
        ELSE IF wind_gen.raised # "none"
        THEN [ raised |-> wind_gen.raised, out |-> << >> ]
        ELSE IF load_forecast.raised # "none"
        THEN [ raised |-> load_forecast.raised, out |-> << >> ]
        ELSE IF load = << >>
        THEN [ raised |-> "KeyError", out |-> << >> ]
        ELSE LET dat1 == left_merge(solar_gen.rows, wind_gen.rows,
                                    wind_gen.columns \ {"DATETIME"})
                 dat2 == left_merge(dat1, load_forecast.out, {"MedianLoadForecast"})
             IN  [ raised |-> "none", out |-> WithNetLoad(dat2) ]

\* ---- inputs
NetTimes == << timedelta(1, 1, 0), timedelta(1, 2, 0), timedelta(1, 3, 0) >>

\* a fetched renewable row: its columns, DATETIME and capability
RenewableRow(cols, d, v) ==
    [ c \in cols |->
        CASE c = "DATETIME" -> d
          [] c = "PostedDatetime" -> <<0, 6, 0>>
          [] c = "COPHSLSystemWide" -> v
          [] c = "COPHSLSystemWide2" -> 3
          [] c = "GenerationSystemWide" -> 1
          [] c = "HSLSystemWide" -> 2
          [] OTHER -> 0 ]

PlainColumns == {"DATETIME", "PostedDatetime", "COPHSLSystemWide", "HSLSystemWide",
                 "DSTFlag"}
TwoHSLColumns == PlainColumns \cup {"COPHSLSystemWide2"}
NoHSLColumns == {"DATETIME", "PostedDatetime", "GenerationSystemWide", "HSLSystemWide",
                 "DSTFlag"}

\* a fetch that returned rows has at least one; one that returned none is the
\* table without columns
RenewableTables(colsets, cells) ==
    { [ i \in DOMAIN rs |-> RenewableRow(cols, rs[i][1], rs[i][2]) ] :
        cols \in colsets, rs \in SeqsUpTo(cells, MaxNetRows) \ { << >> } }
      \cup { << >> }

SolarTables ==
    RenewableTables({PlainColumns, TwoHSLColumns, NoHSLColumns},
                    { <<NetTimes[1], 10>>, <<NetTimes[2], 20>> })

WindTables ==
    RenewableTables({PlainColumns, NoHSLColumns},
                    { <<NetTimes[1], 6>>, <<NetTimes[3], 8>> })

NetLoadRows ==
    { [ c \in {"DATETIME", "Model", "SystemTotal", "PostedDatetime", "DSTFlag"} |->
          CASE c = "DATETIME" -> d
            [] c = "Model" -> 1
            [] c = "SystemTotal" -> v
            [] c = "PostedDatetime" -> <<0, 6, 0>>
            [] OTHER -> 0 ] :
        d \in {NetTimes[1], NetTimes[3]}, v \in LoadTotals }

IdleNet ==
    /\ solar_fetched = << >> /\ wind_fetched = << >> /\ load_fetched = << >>
    /\ net_load = << >>

InitNet ==
    /\ call = "none" /\ raised = "none"
    /\ solar_fetched \in SolarTables
    /\ wind_fetched \in WindTables
    /\ load_fetched \in SeqsUpTo(NetLoadRows, MaxNetRows)
    /\ net_load = << >>

\* get_net_load_forecast(date_from, date_to): the three fetches answer
\* solar_fetched, wind_fetched and load_fetched
GetNetLoadForecast ==
    /\ call = "none"
    /\ call' = "get_net_load_forecast"
    /\ LET r == get_net_load_forecast(solar_fetched, wind_fetched, load_fetched)
       IN  raised' = r.raised /\ net_load' = r.out
    /\ UNCHANGED <<solar_fetched, wind_fetched, load_fetched>>

-----------------------------------------------------------------------------
(* Rolling cross-validation: server/forecasting.py *)

\* all_data.sort_values("DATETIME").reset_index(drop=True)
sort_by_datetime(t) == SortSeq(t, LAMBDA a, b : a["DATETIME"] < b["DATETIME"])

\* where the processing of a split may raise: LinearRegression.fit,
\* model.predict, the metric functions; "ok" when it completes
SplitOutcomes == {"ok", "fit", "predict", "metrics"}

\* the splits whose test rows were appended to all_predictions: those that
\* passed fit and predict
Predicted(outcome) == outcome \in {"ok", "metrics"}

\* the splits whose metrics were appended to daily_metrics
Measured(outcome) == outcome = "ok"

\* test_data[["DATETIME", "Date", ...]] of one split (the predicted values are
\* the regression's and are left out)
test_results(s) == [ i \in DOMAIN s.test_data |-> s.test_data[i].row ]

\* pd.concat(all_predictions, ignore_index=True) after the loop
RECURSIVE ConcatPredictions(_, _)
ConcatPredictions(sp, outcomes) ==
    IF sp = << >> THEN << >>
    ELSE (IF Predicted(Head(outcomes)) THEN test_results(Head(sp)) ELSE << >>)
            \o ConcatPredictions(Tail(sp), Tail(outcomes))

\* the list daily_metrics after the loop
RECURSIVE DailyMetrics(_, _)
DailyMetrics(sp, outcomes) ==
    IF sp = << >> THEN << >>
    ELSE (IF Measured(Head(outcomes))
          THEN << [ date |-> Head(sp).test_date, hours |-> Len(Head(sp).test_data) ] >>
          ELSE << >>)
            \o DailyMetrics(Tail(sp), Tail(outcomes))

NoPerformance == [ total_hours |-> 0, forecast_days |-> 0 ]

\* ---- inputs
\* the joined net load and price table, before the Date column is added
CvTables == SeqsUpTo([ {"DATETIME"} -> SplitTimes ], MaxSplitRows)

IdleCv ==
    /\ split_outcomes = << >> /\ all_predictions = << >> /\ daily_metrics = << >>
    /\ overall_performance = NoPerformance

InitCv ==
    /\ call = "none" /\ raised = "none"
    /\ data \in CvTables
    /\ initial_training_days \in 0..MaxTrainDays
    /\ expanding_window \in BOOLEAN
    /\ splits = << >>
    /\ IdleCv

\* rolling_forecast_cv(start_date, end_date, initial_training_days, ...): data
\* is the joined table; the regression raises or not in each split
RollingForecastCv ==
    /\ call = "none"
    /\ call' = "rolling_forecast_cv"
    /\ data' = sort_by_datetime(EnsureDate(data))
    /\ UNCHANGED <<initial_training_days, expanding_window>>
    /\ LET dates == unique_dates(data')
           n_dates == Len(dates)
       IN  IF NotEnoughDays(n_dates, initial_training_days)
           THEN /\ raised' = "ValueError"
                /\ splits' = << >>
                /\ UNCHANGED cvVars
           ELSE /\ splits' = SplitsOver(data', dates,
                                        TestIndices(initial_training_days, n_dates),
                                        initial_training_days, expanding_window)
                /\ split_outcomes' \in [ DOMAIN splits' -> SplitOutcomes ]
                /\ LET predictions == ConcatPredictions(splits', split_outcomes')
                       metrics == DailyMetrics(splits', split_outcomes')
                       nothing == \A i \in DOMAIN splits' : ~ Predicted(split_outcomes'[i])
                   IN  IF nothing
                       THEN \* pd.concat([]) raises "No objects to concatenate"
                            /\ raised' = "ValueError"
                            /\ UNCHANGED <<all_predictions, daily_metrics,
                                           overall_performance>>
                       ELSE /\ raised' = "none"
                            /\ all_predictions' = predictions
                            /\ daily_metrics' = metrics
                            /\ overall_performance' =
                                  [ total_hours |-> Len(predictions),
                                    forecast_days |-> Len(metrics) ]

-----------------------------------------------------------------------------
(* Day-ahead forecast: server/forecasting.py *)

MaxTrainingDays == 2    \* largest training_days tried
MaxForecastDay == 4     \* last forecast date tried

\* date.strftime("%Y-%m-%d") and datetime.strptime(s, "%Y-%m-%d").date(): a
\* date object is a day number, its string the tuple holding it
date_strftime(d) == <<d>>
strptime(s) == s[1]

\* forecast_date after the defaulting and the parsing: tomorrow when None
ForecastDate(fd, clock) ==
    IF fd.kind = "none" THEN clock + 1
    ELSE IF fd.kind = "str" THEN strptime(fd.str)
    ELSE fd.day

\* training_end = forecast_date - timedelta(days=1)
training_end(fd) == fd - 1

\* a window that starts training_days before its last day
training_start_early(fd, days) == training_end(fd) - days

\* training_start = training_end - timedelta(days=training_days - 1)
training_start(fd, days) == training_end(fd) - (days - 1)

\* one fetch_data call as get_vintage_forecast makes it
Request(endpoint, from, to) ==
    [ endpoint_name |-> endpoint, date_from |-> from, date_to |-> EndDate(from, to),
      postedDatetimeTo |-> PostedDatetimeCutoff(EndDate(from, to)) ]

\* the fetch_data call for the prices
LambdaRequest(from, to) ==
    [ endpoint_name |-> "da_system_lambda", date_from |-> from, date_to |-> to,
      postedDatetimeTo |-> NullStr ]

\* the days a request covers
DaysOf(from, to) == strptime(from)..strptime(EndDate(from, to))

\* the table a fetch is answered: one row per requested day, at hour 1 (hour
\* 2 when the answer is "shifted"), none when the answer is "empty"
AnswerTimes(from, to, hour) ==
    LET days == sorted(DaysOf(from, to))
    IN  [ i \in DOMAIN days |-> timedelta(days[i], hour, 0) ]

RenewableAnswer(answer, from, to, v) ==
    IF answer = "rows"
    THEN LET times == AnswerTimes(from, to, 1)
         IN  [ i \in DOMAIN times |-> RenewableRow(PlainColumns, times[i], v) ]
    ELSE << >>

LoadAnswer(answer, from, to) ==
    IF answer \in {"rows", "shifted"}
    THEN LET times == AnswerTimes(from, to, IF answer = "rows" THEN 1 ELSE 2)
         IN  [ i \in DOMAIN times |->
                 [ c \in {"DATETIME", "Model", "SystemTotal", "PostedDatetime", "DSTFlag"} |->
                     CASE c = "DATETIME" -> times[i]
                       [] c = "Model" -> 1
                       [] c = "SystemTotal" -> 40
                       [] c = "PostedDatetime" -> <<0, 6, 0>>
                       [] OTHER -> 0 ] ]
    ELSE << >>

LambdaAnswer(answer, from, to) ==
    IF answer = "rows"
    THEN LET times == AnswerTimes(from, to, 1)
         IN  [ i \in DOMAIN times |->
                 [ c \in {"DATETIME", "SystemLambda", "DSTFlag"} |->
                     CASE c = "DATETIME" -> times[i]
                       [] c = "SystemLambda" -> 25
                       [] OTHER -> 0 ] ]
    ELSE << >>

\* the exception a fetch_data call raises for its answer
FetchRaised(answer) == IF answer = "error" THEN "HTTPError" ELSE "none"

\* the one element of a set of one: Only({ f(x) : x \in {e} }) is f(e)
Only(S) == CHOOSE x \in S : TRUE

\* the steps of get_net_load_forecast over the three answers: a fetch is made
\* only when everything before it succeeded
NetLoadSteps(a, solar, wind, load, solar_gen, wind_gen, solar_req, wind_req, load_req) ==
    IF FetchRaised(a.solar) # "none"
    THEN [ raised |-> FetchRaised(a.solar), out |-> << >>, requests |-> solar_req ]
    ELSE IF solar_gen.raised # "none"
    THEN [ raised |-> solar_gen.raised, out |-> << >>, requests |-> solar_req ]
    ELSE IF FetchRaised(a.wind) # "none"
    THEN [ raised |-> FetchRaised(a.wind), out |-> << >>,
           requests |-> solar_req \o wind_req ]
    ELSE IF wind_gen.raised # "none"
    THEN [ raised |-> wind_gen.raised, out |-> << >>,
           requests |-> solar_req \o wind_req ]
    ELSE IF FetchRaised(a.load) # "none"
    THEN [ raised |-> FetchRaised(a.load), out |-> << >>,
           requests |-> solar_req \o wind_req \o load_req ]
    ELSE get_net_load_forecast(solar, wind, load)
             @@ [ requests |-> solar_req \o wind_req \o load_req ]

\* get_net_load_forecast(date_from, date_to) with its three fetches answered
\* a: the exception raised, the table returned and the fetches made
NetLoadCall(from, to, a) ==
    Only({ NetLoadSteps(a, solar, wind, load, solar_gen, wind_gen, solar_req, wind_req,
                        load_req) :
             solar \in { RenewableAnswer(a.solar, from, to, 10) },
             wind \in { RenewableAnswer(a.wind, from, to, 6) },
             load \in { LoadAnswer(a.load, from, to) },
             solar_gen \in { RenewableTable(RenewableAnswer(a.solar, from, to, 10),
                                            "SolarHSLSystemWide") },
             wind_gen \in { RenewableTable(RenewableAnswer(a.wind, from, to, 6),
                                           "WindHSLSystemWide") },
             solar_req \in { << Request("solar_system_forecast", from, to) >> },
             wind_req \in { << Request("wind_system_forecast", from, to) >> },
             load_req \in { << Request("ercot_zone_load_forecast", from, to) >> } })

\* net_load_data.merge(lambda_data, on="DATETIME", how="inner")
RECURSIVE inner_merge(_, _, _)
inner_merge(left, right, rcols) ==
    IF left = << >> THEN << >>
    ELSE LET l == Head(left)
             hits == SelectSeq(right, LAMBDA r : r["DATETIME"] = l["DATETIME"])
         IN  [ k \in DOMAIN hits |->
                 [ c \in DOMAIN l \cup rcols |->
                     IF c \in DOMAIN l THEN l[c] ELSE hits[k][c] ] ]
                 \o inner_merge(Tail(left), right, rcols)

\* the column of a table as a list
Column(t, c) == [ i \in DOMAIN t |-> t[i][c] ]

\* sklearn refuses an input without rows or with a missing value
Unusable(values) == values = << >> \/ Null \in Range(values)

\* LinearRegression().fit(X_train, y_train): the model is given by what it was
\* fitted on
fit(X, y, degree) ==
    IF Unusable(X) \/ Unusable(y)
    THEN [ raised |-> "ValueError", model |-> << >> ]
    ELSE [ raised |-> "none", model |-> << [ X |-> X, y |-> y, degree |-> degree ] >> ]

\* the training metrics: the errors of the model on its training data
training_performance(model) ==
    [ mae |-> <<"mae", model>>, rmse |-> <<"rmse", model>>,
      r_squared |-> <<"r2", model>> ]

\* result["parameters"]
parameters(fd, days, degree) ==
    [ forecast_date |-> fd, training_days |-> days,
      training_period |-> << training_start(fd, days), training_end(fd) >>,
      polynomial_degree |-> degree ]

\* the forecast table: PredictedLambda and Date added to the net load table
WithPrediction(t, model, fd) ==
    [ i \in DOMAIN t |->
        [ c \in DOMAIN t[i] \cup {"PredictedLambda", "Date"} |->
            IF c = "PredictedLambda" THEN <<"predict", model, t[i]["NetLoad"]>>
            ELSE IF c = "Date" THEN fd
            ELSE t[i][c] ] ]

\* a handler that lets the exception of the forecast step through
except_reraise(e, model, fd, days, degree) ==
    [ raised |-> e, result |-> << >> ]

\* except Exception as e: the training-only result
except_Exception(e, model, fd, days, degree) ==
    [ raised |-> "none",
      result |-> << [ forecast |-> << >>,
                      model |-> model,
                      training_performance |-> training_performance(model),
                      parameters |-> parameters(fd, days, degree) ] >> ]

\* the try block: the prediction over the net load of the forecast date, or
\* the handler
forecast_step(net, model, fd, days, degree) ==
    IF net.raised # "none"
    THEN except_Exception(net.raised, model, fd, days, degree)
             @@ [ requests |-> net.requests ]
    ELSE IF Unusable(Column(net.out, "NetLoad"))
    THEN except_Exception("ValueError", model, fd, days, degree)
             @@ [ requests |-> net.requests ]
    ELSE [ raised |-> "none",
           result |-> << [ forecast |-> WithPrediction(net.out, model, fd),
                           model |-> model,
                           training_performance |-> training_performance(model),
                           parameters |-> parameters(fd, days, degree) ] >>,
           requests |-> net.requests ]

\* the fetches of the training data followed by those of the forecast step
after_training(made, step) ==
    [ raised |-> step.raised, result |-> step.result,
      requests |-> made \o step.requests ]

\* the body of day_ahead_forecast over the fetched training data and the
\* fitted model; forecast_net is what the net-load call of the try block
\* comes to when it is made
training_steps(fd, days, degree, a, net, lambda_req, lambda_data, fitted, forecast_net) ==
    IF net.raised # "none"
    THEN [ raised |-> net.raised, result |-> << >>, requests |-> net.requests ]
    ELSE IF FetchRaised(a.lambda) # "none"
    THEN [ raised |-> FetchRaised(a.lambda), result |-> << >>,
           requests |-> net.requests \o lambda_req ]
    ELSE IF lambda_data = << >>
    THEN \* lambda_data[["DATETIME", "SystemLambda"]] of a table without columns
         [ raised |-> "KeyError", result |-> << >>,
           requests |-> net.requests \o lambda_req ]
    ELSE IF fitted.raised # "none"
    THEN [ raised |-> fitted.raised, result |-> << >>,
           requests |-> net.requests \o lambda_req ]
    ELSE after_training(net.requests \o lambda_req,
                        forecast_step(forecast_net, fitted.model, fd, days, degree))

\* X_train and y_train of the merged training data, fitted
fit_training_data(training_data, degree) ==
    fit(Column(training_data, "NetLoad"), Column(training_data, "SystemLambda"), degree)

\* the dates of the two net-load calls: the training window and the forecast
\* date
NetLoadDates(fd, from, to) ==
    [ training |-> [ date_from |-> from, date_to |-> to ],
      forecast |-> [ date_from |-> date_strftime(fd), date_to |-> NullStr ] ]

\* the fetches over the training window, the merge, the fit and the forecast
fetch_training_window(fd, days, degree, a, from, to) ==
    Only({ Only({ training_steps(fd, days, degree, a, net["training"], lambda_req,
                                 lambda_data, fitted, net["forecast"]) :
                    fitted \in { Only({ fit_training_data(training_data, degree) :
                        training_data \in
                            { inner_merge(net["training"].out, lambda_data,
                                          {"SystemLambda"}) } }) } }) :
             net \in { [ k \in {"training", "forecast"} |->
                           NetLoadCall(NetLoadDates(fd, from, to)[k].date_from,
                                       NetLoadDates(fd, from, to)[k].date_to, a[k]) ] },
             lambda_req \in { << LambdaRequest(from, to) >> },
             lambda_data \in { LambdaAnswer(a.lambda, from, to) } })

\* the training window of a forecast date
with_training_window(fd, days, degree, a) ==
    Only({ fetch_training_window(fd, days, degree, a, from, to) :
             from \in { date_strftime(training_start(fd, days)) },
             to \in { date_strftime(training_end(fd)) } })

\* day_ahead_forecast(forecast_date, training_days, polynomial_degree): the
\* exception raised, the dictionary returned and the fetches made
day_ahead_forecast(fd_arg, clock, days, degree, a) ==
    Only({ with_training_window(fd, days, degree, a) :
             fd \in { ForecastDate(fd_arg, clock) } })

\* ---- inputs
ForecastDays == (MaxTrainingDays + 1)..MaxForecastDay

ForecastDateArguments ==
    { [ kind |-> "date", day |-> d, str |-> NullStr ] : d \in ForecastDays }
        \cup { [ kind |-> "str", day |-> Null, str |-> <<d>> ] : d \in ForecastDays }
        \cup { [ kind |-> "none", day |-> Null, str |-> NullStr ] }

\* at most one of the three forecasts of a net-load call is out of the ordinary
NetLoadAnswers ==
    { a \in [ solar : {"rows", "empty", "error"}, wind : {"rows", "error"},
              load : {"rows", "error", "shifted"} ] :
        Cardinality({ f \in {"solar", "wind", "load"} : a[f] # "rows" }) <= 1 }

FetchAnswers ==
    [ training : NetLoadAnswers, lambda : {"rows", "empty", "error"},
      forecast : NetLoadAnswers ]

NoAnswers ==
    [ training |-> [ solar |-> "empty", wind |-> "error", load |-> "error" ],
      lambda |-> "empty",
      forecast |-> [ solar |-> "empty", wind |-> "error", load |-> "error" ] ]

IdleDayAhead ==
    /\ forecast_date = [ kind |-> "none", day |-> Null, str |-> NullStr ]
    /\ today = 0 /\ training_days = 0 /\ polynomial_degree = 0
    /\ answers = NoAnswers
    /\ requests = << >> /\ result = << >>

InitDayAhead ==
    /\ call = "none" /\ raised = "none"
    /\ forecast_date \in ForecastDateArguments
    /\ today \in { d - 1 : d \in ForecastDays }
    /\ forecast_date.kind # "none" => today = MaxTrainingDays
    /\ training_days \in 0..MaxTrainingDays
    /\ polynomial_degree \in {1, 3}
    /\ answers \in FetchAnswers
    /\ requests = << >> /\ result = << >>

DayAheadForecast ==
    /\ call = "none"
    /\ call' = "day_ahead_forecast"
    /\ LET r == day_ahead_forecast(forecast_date, today, training_days,
                                   polynomial_degree, answers)
       IN  raised' = r.raised /\ result' = r.result /\ requests' = r.requests
    /\ UNCHANGED <<forecast_date, today, training_days, polynomial_degree, answers>>

-----------------------------------------------------------------------------
(* Token manager: server/auth.py *)

MaxClock == 61          \* last minute of the clock
MaxCalls == 3           \* get_valid_token calls of one behaviour

\* TOKEN_LIFETIME = timedelta(hours=1)
TOKEN_LIFETIME == timedelta(0, 1, 0)

\* an id_token is a tuple: << >> is the empty string, <<n>> the token of the
\* n-th login.  The stored token is a list: empty for None.
NoToken == << >>
EmptyString == << >>

\* a token that still counts as valid when exactly one lifetime old
is_token_valid_inclusive(tok, clock) ==
    /\ tok # NoToken
    /\ tok[1].id_token # EmptyString
    /\ clock - tok[1].acquired_at <= TOKEN_LIFETIME

\* is_token_valid(): a token is stored, its id_token is not empty and it was
\* acquired less than TOKEN_LIFETIME ago
is_token_valid(tok, clock) ==
    /\ tok # NoToken
    /\ tok[1].id_token # EmptyString
    /\ clock - tok[1].acquired_at < TOKEN_LIFETIME

\* get_auth_token(): the login request and what it raises for its answer
get_auth_token(answer) ==
    CASE answer.status = "ok" -> [ raised |-> "none", id_token |-> answer.id_token ]
      [] answer.status = "401" -> [ raised |-> "ValueError", id_token |-> EmptyString ]
      [] answer.status = "timeout" -> [ raised |-> "TimeoutError", id_token |-> EmptyString ]
      [] OTHER -> [ raised |-> "HTTPError", id_token |-> EmptyString ]

\* a login that answers a failure with an empty token instead of raising
fetch_new_token_swallow(answer, clock) ==
    [ raised |-> "none",
      token |-> << [ id_token |-> get_auth_token(answer).id_token,
                     acquired_at |-> clock ] >> ]

\* fetch_new_token(): the token of the login answer, stamped with the clock
fetch_new_token(answer, clock) ==
    LET token_data == get_auth_token(answer)
    IN  IF token_data.raised # "none"
        THEN [ raised |-> token_data.raised, token |-> NoToken ]
        ELSE [ raised |-> "none",
               token |-> << [ id_token |-> token_data.id_token,
                              acquired_at |-> clock ] >> ]

\* get_valid_token(): the exception raised, the token stored afterwards, the
\* id_token returned and whether a login request was issued
get_valid_token(tok, clock, answer) ==
    IF ~ is_token_valid(tok, clock)
    THEN LET new == fetch_new_token(answer, clock)
         IN  IF new.raised # "none"
             THEN [ raised |-> new.raised, token |-> tok, returned |-> << >>,
                    login |-> TRUE ]
             ELSE [ raised |-> "none", token |-> new.token,
                    returned |-> << new.token[1].id_token >>, login |-> TRUE ]
    ELSE [ raised |-> "none", token |-> tok, returned |-> << tok[1].id_token >>,
           login |-> FALSE ]

\* ---- inputs
\* the answer to the n-th login request: a fresh token
Granted(n) == [ status |-> "ok", id_token |-> <<n>> ]

\* the failures of a login request
Refusals == { [ status |-> s, id_token |-> EmptyString ] : s \in {"401", "500", "timeout"} }

ClockSteps == { 1, 59 }

IdleAuth ==
    /\ token = NoToken /\ now = 0 /\ logins = 0 /\ calls = 0 /\ returned = << >>

InitAuth ==
    /\ call = "none" /\ raised = "none"
    /\ IdleAuth

\* one get_valid_token() call whose login request, if it issues one, is
\* answered from the given answers
GetValidToken(login_answers) ==
    /\ calls < MaxCalls
    /\ \E answer \in login_answers :
           LET r == get_valid_token(token, now, answer)
           IN  /\ raised' = r.raised
               /\ token' = r.token
               /\ returned' = r.returned
               /\ logins' = IF r.login THEN logins + 1 ELSE logins
    /\ call' = "get_valid_token"
    /\ calls' = calls + 1
    /\ UNCHANGED now

\* time passes between two calls
Tick ==
    /\ \E step \in ClockSteps :
           /\ now + step <= MaxClock
           /\ now' = now + step
    /\ UNCHANGED <<call, raised, token, logins, calls, returned>>

-----------------------------------------------------------------------------
(* Endpoint catalog: server/endpoints.py *)

\* ANNOTATED_ENDPOINTS, in the order of the dictionary: name, date key and
\* URL (the part behind https://api.ercot.com/api/public-reports/)
ANNOTATED_ENDPOINTS ==
    << [ name |-> "da_prices", date_key |-> "deliveryDate",
         url |-> "np4-190-cd/dam_stlmnt_pnt_prices" ],
       [ name |-> "rt_prices", date_key |-> "deliveryDate",
         url |-> "np6-905-cd/spp_node_zone_hub" ],
       [ name |-> "ancillary_prices", date_key |-> "deliveryDate",
         url |-> "np4-188-cd/dam_clear_price_for_cap" ],
       [ name |-> "da_system_lambda", date_key |-> "deliveryDate",
         url |-> "np4-523-cd/dam_system_lambda" ],
       [ name |-> "rt_system_lambda", date_key |-> "SCEDTimestamp",
         url |-> "np6-322-cd/sced_system_lambda" ],
       [ name |-> "ercot_load_forecast", date_key |-> "deliveryDate",
         url |-> "np3-566-cd/lf_by_model_study_area" ],
       [ name |-> "ercot_zone_load_forecast", date_key |-> "deliveryDate",
         url |-> "np3-565-cd/lf_by_model_weather_zone" ],
       [ name |-> "solar_system_forecast", date_key |-> "deliveryDate",
         url |-> "np4-737-cd/spp_hrly_avrg_actl_fcast" ],
       [ name |-> "wind_system_forecast", date_key |-> "deliveryDate",
         url |-> "np4-732-cd/wpp_hrly_avrg_actl_fcast" ],
       [ name |-> "ercot_outages", date_key |-> "operatingDate",
         url |-> "np3-233-cd/hourly_res_outage_cap" ],
       [ name |-> "binding_constraints", date_key |-> "deliveryDate",
         url |-> "np6-86-cd/shdw_prices_bnd_trns_const" ],
       [ name |-> "ercot_actual_load", date_key |-> "operatingDay",
         url |-> "np6-345-cd/act_sys_load_by_wzn" ],
       [ name |-> "wind_prod_5min", date_key |-> "intervalEnding",
         url |-> "np4-733-cd/wpp_actual_5min_avg_values" ],
       [ name |-> "solar_prod_5min", date_key |-> "intervalEnding",
         url |-> "np4-738-cd/spp_actual_5min_avg_values" ],
       [ name |-> "sixty_dam_energy_only_offers", date_key |-> "deliveryDate",
         url |-> "np3-966-er/60_dam_energy_only_offers" ],
       [ name |-> "sixty_dam_awards", date_key |-> "deliveryDate",
         url |-> "np3-966-er/60_dam_energy_only_offer_awards" ],
       [ name |-> "energybids", date_key |-> "deliveryDate",
         url |-> "np3-966-er/60_dam_energy_bids" ],
       [ name |-> "gen_data", date_key |-> "deliveryDate",
         url |-> "np3-966-er/60_dam_gen_res_data" ],
       [ name |-> "twodayAS", date_key |-> "deliveryDate",
         url |-> "np3-911-er/2d_agg_as_offers_ecrsm" ],
       [ name |-> "sced_gen_data", date_key |-> "SCEDTimestamp",
         url |-> "np3-965-er/60_sced_gen_res_data" ],
       [ name |-> "sced_energy_only_offers", date_key |-> "deliveryDate",
         url |-> "np3-966-er/60_dam_energy_only_offers" ],
       [ name |-> "sced_gen_as_data", date_key |-> "deliveryDate",
         url |-> "np3-966-er/60_dam_gen_res_as_offers" ],
       [ name |-> "sced_load_data", date_key |-> "deliveryDate",
         url |-> "np3-966-er/60_dam_load_res_data" ] >>

\* the categories in the order of the dictionary
CategoryOrder == << "prices", "forecasts", "actuals", "market_data", "other" >>

ENDPOINT_CATEGORIES ==
    [ c \in Range(CategoryOrder) |->
        CASE c = "prices" ->
               << "da_prices", "rt_prices", "ancillary_prices", "da_system_lambda", "rt_system_lambda" >>
          [] c = "forecasts" ->
               << "ercot_load_forecast", "ercot_zone_load_forecast", "solar_system_forecast", "wind_system_forecast" >>
          [] c = "actuals" ->
               << "ercot_actual_load", "wind_prod_5min", "solar_prod_5min" >>
          [] c = "market_data" ->
               << "sixty_dam_energy_only_offers", "sixty_dam_awards", "energybids", "gen_data", "twodayAS", "sced_gen_data", "sced_energy_only_offers", "sced_gen_as_data", "sced_load_data" >>
          [] c = "other" ->
               << "ercot_outages", "binding_constraints" >> ]

\* COMMON_PARAMETERS: a parameter name is the tuple of its parts, so that
\* f"{date_key}From" is <<date_key, "From">>
COMMON_PARAMETERS ==
    [ k \in { "deliveryDate", "operatingDay", "operatingDate", "SCEDTimestamp", "intervalEnding" } |->
        CASE k = "deliveryDate" ->
               { <<"deliveryDate", "From">>, <<"deliveryDate", "To">>, <<"settlementPoint">>, <<"size">>, <<"postedDatetime", "From">>, <<"postedDatetime", "To">> }
          [] k = "operatingDay" ->
               { <<"operatingDay", "From">>, <<"operatingDay", "To">>, <<"size">> }
          [] k = "operatingDate" ->
               { <<"operatingDate", "From">>, <<"operatingDate", "To">>, <<"size">> }
          [] k = "SCEDTimestamp" ->
               { <<"SCEDTimestamp", "From">>, <<"SCEDTimestamp", "To">>, <<"resourceType">>, <<"size">> }
          [] k = "intervalEnding" ->
               { <<"intervalEnding", "From">>, <<"intervalEnding", "To">>, <<"size">> } ]

EndpointNames == { ANNOTATED_ENDPOINTS[i].name : i \in DOMAIN ANNOTATED_ENDPOINTS }

\* ANNOTATED_ENDPOINTS[endpoint_name]
Entry(name) ==
    ANNOTATED_ENDPOINTS[CHOOSE i \in DOMAIN ANNOTATED_ENDPOINTS :
                            ANNOTATED_ENDPOINTS[i].name = name]

\* validate_endpoint(endpoint_name)
validate_endpoint(name) == name \in EndpointNames

\* next((cat for cat, eps in ENDPOINT_CATEGORIES.items() if name in eps), "other")
CategoryOf(name) ==
    LET holding == { i \in DOMAIN CategoryOrder :
                       name \in Range(ENDPOINT_CATEGORIES[CategoryOrder[i]]) }
    IN  IF holding = {} THEN "other"
        ELSE CategoryOrder[CHOOSE i \in holding : \A j \in holding : i <= j]

\* get_endpoint_spec(endpoint_name): the exception raised and the EndpointSpec
get_endpoint_spec(name) ==
    IF name \notin EndpointNames
    THEN [ raised |-> "ValueError", spec |-> << >> ]
    ELSE LET entry == Entry(name)
         IN  [ raised |-> "none",
               spec |-> << [ name |-> name,
                             date_key |-> entry.date_key,
                             url |-> entry.url,
                             category |-> CategoryOf(name),
                             valid_parameters |->
                                 IF entry.date_key \in DOMAIN COMMON_PARAMETERS
                                 THEN COMMON_PARAMETERS[entry.date_key]
                                 ELSE {} ] >> ]

\* a listing that answers an unknown category with every endpoint
list_endpoints_lenient(cat) ==
    [ raised |-> "none",
      specs |-> [ i \in DOMAIN ANNOTATED_ENDPOINTS |->
                    get_endpoint_spec(ANNOTATED_ENDPOINTS[i].name).spec[1] ] ]

\* list_endpoints(category): the exception raised and the list returned
list_endpoints(cat) ==
    IF cat # "all" /\ cat \notin DOMAIN ENDPOINT_CATEGORIES
    THEN [ raised |-> "ValueError", specs |-> << >> ]
    ELSE LET endpoint_names ==
                 IF cat = "all"
                 THEN [ i \in DOMAIN ANNOTATED_ENDPOINTS |-> ANNOTATED_ENDPOINTS[i].name ]
                 ELSE ENDPOINT_CATEGORIES[cat]
         IN  IF \E i \in DOMAIN endpoint_names :
                    get_endpoint_spec(endpoint_names[i]).raised # "none"
             THEN [ raised |-> "ValueError", specs |-> << >> ]
             ELSE [ raised |-> "none",
                    specs |-> [ i \in DOMAIN endpoint_names |->
                                  get_endpoint_spec(endpoint_names[i]).spec[1] ] ]

\* ---- inputs
CategoryArguments ==
    Range(CategoryOrder) \cup {"all", "", "Prices", "invalid_category"}

EndpointArguments == EndpointNames \cup {"invalid_endpoint", "bogus", ""}

IdleCatalog ==
    /\ category = "" /\ listed = << >> /\ info_name = "" /\ info = << >>

InitCatalog ==
    /\ call = "none" /\ raised = "none"
    /\ category \in CategoryArguments
    /\ info_name \in EndpointArguments
    /\ listed = << >> /\ info = << >>

\* list_endpoints(category)
ListEndpoints ==
    /\ call = "none"
    /\ call' = "list_endpoints"
    /\ LET r == list_endpoints(category)
       IN  raised' = r.raised /\ listed' = r.specs
    /\ UNCHANGED <<category, info_name, info>>

\* get_endpoint_spec(endpoint_name)
GetEndpointSpec ==
    /\ call = "none"
    /\ call' = "get_endpoint_spec"
    /\ LET r == get_endpoint_spec(info_name)
       IN  raised' = r.raised /\ info' = r.spec
    /\ UNCHANGED <<category, info_name, listed>>

-----------------------------------------------------------------------------
(* API client: server/client.py, with the query parameters of server/utils.py *)

\* A string is the tuple of its parts ("2024-01-01" is <<"2024-01-01">>, a
\* number printed in decimal the tuple of its digits) and None the empty
\* tuple; an argument that may be a string, a number or None is a record.
StrValue(s) == [ kind |-> "str", s |-> <<s>>, n |-> 0 ]
IntValue(n) == [ kind |-> "int", s |-> << >>, n |-> n ]
None == [ kind |-> "none", s |-> << >>, n |-> 0 ]

\* str(n) of a number that is not negative
RECURSIVE Decimal(_)
Decimal(n) ==
    IF n < 10 THEN << Digits[n + 1] >>
    ELSE Decimal(n \div 10) \o << Digits[(n % 10) + 1] >>

\* str(value)
str(value) == IF value.kind = "int" THEN Decimal(value.n) ELSE value.s

\* build_query_params(endpoint_name, date_key, date_from, date_to, **kwargs):
\* the date parameters, then every keyword argument that is not None, a later
\* key replacing an earlier one
build_query_params(date_key, from, to, kwargs) ==
    [ k \in { k \in DOMAIN kwargs : kwargs[k] # None } |-> str(kwargs[k]) ]
        @@ [ k \in { <<date_key, "From">>, <<date_key, "To">> } |->
               IF k[2] = "From" THEN from
               ELSE IF to # NullStr THEN to ELSE from ]

\* validate_parameters(endpoint_name, params, valid_params)
validate_parameters(params, valid_params) ==
    [ k \in { k \in DOMAIN params : k \in valid_params \/ k \in { <<"size">>, <<"offset">> } }
        |-> params[k] ]

\* the keyword arguments fetch_data hands to build_query_params
QueryKeywords(args) ==
    args.kwargs
        @@ [ k \in { <<"settlementPoint">>, <<"resourceType">>, <<"size">> } |->
               CASE k = <<"settlementPoint">> -> args.settlement_point
                 [] k = <<"resourceType">> -> args.resource_type
                 [] OTHER -> args.size ]

\* what an answered GET makes ercot_api_call and parse_ercot_response raise
GetRaised(answer) ==
    CASE answer = "ok" -> "none"
      [] answer \in {"401", "404", "400"} -> "ValueError"
      [] answer = "timeout" -> "TimeoutError"
      [] answer = "no data key" -> "ValueError"
      [] OTHER -> "HTTPError"

\* ercot_api_call(url, params): the token is obtained first, then the
\* subscription key is read, then the GET is issued
ercot_api_call(url, params, tok, clock, key, login_answer, get_answer) ==
    LET t == get_valid_token(tok, clock, login_answer)
    IN  IF t.raised # "none"
        THEN [ raised |-> t.raised, token |-> t.token, login |-> t.login,
               called |-> TRUE, gets |-> << >> ]
        ELSE IF ~ key
        THEN [ raised |-> "ValueError", token |-> t.token, login |-> t.login,
               called |-> TRUE, gets |-> << >> ]
        ELSE [ raised |-> GetRaised(get_answer), token |-> t.token, login |-> t.login,
               called |-> TRUE,
               gets |-> << [ url |-> url, params |-> params,
                             bearer |-> t.returned[1] ] >> ]

\* fetch_data behind the endpoint check: the spec, the parameters, the call
FetchRequest(args, tok, clock, key, login_answer, get_answer) ==
    LET spec == get_endpoint_spec(args.endpoint_name).spec[1]
        params == validate_parameters(
                      build_query_params(spec.date_key, args.date_from, args.date_to,
                                         QueryKeywords(args)),
                      spec.valid_parameters)
    IN  ercot_api_call(spec.url, params, tok, clock, key, login_answer, get_answer)

\* a fetch that asks for its token before it looks at the endpoint name
fetch_data_token_first(args, tok, clock, key, login_answer, get_answer) ==
    LET t == get_valid_token(tok, clock, login_answer)
    IN  IF ~ validate_endpoint(args.endpoint_name)
        THEN [ raised |-> "ValueError", token |-> t.token, login |-> t.login,
               called |-> TRUE, gets |-> << >> ]
        ELSE FetchRequest(args, tok, clock, key, login_answer, get_answer)

\* fetch_data(endpoint_name, date_from, date_to, settlement_point,
\* resource_type, size, **kwargs): the exception raised, the token stored
\* afterwards, whether a login was issued and the GET requests issued
fetch_data(args, tok, clock, key, login_answer, get_answer) ==
    IF ~ validate_endpoint(args.endpoint_name)
    THEN [ raised |-> "ValueError", token |-> tok, login |-> FALSE,
           called |-> FALSE, gets |-> << >> ]
    ELSE FetchRequest(args, tok, clock, key, login_answer, get_answer)

\* ---- inputs
NoKeywords == [ k \in {} |-> None ]

KeywordArguments ==
    { NoKeywords,
      [ k \in { <<"postedDatetime", "To">> } |-> StrValue("2023-12-31T07:00:00") ],
      [ k \in { <<"postedDatetime", "From">> } |-> None ],
      [ k \in { <<"offset">> } |-> IntValue(50) ],
      [ k \in { <<"bogus">> } |-> StrValue("x") ],
      [ k \in { <<"deliveryDate", "From">> } |-> StrValue("2023-12-25") ] }

FetchArguments ==
    [ endpoint_name : EndpointArguments,
      date_from : { <<"2024-01-01">> },
      date_to : { NullStr, <<"2024-01-07">> },
      settlement_point : { None, StrValue("HB_NORTH") },
      resource_type : { None, StrValue("WGR") },
      size : { IntValue(1000) },
      kwargs : KeywordArguments ]

NoArguments ==
    [ endpoint_name |-> "", date_from |-> NullStr, date_to |-> NullStr,
      settlement_point |-> None, resource_type |-> None, size |-> None,
      kwargs |-> NoKeywords ]

GetAnswers == {"ok", "401", "404", "500", "timeout", "no data key"}

IdleFetch ==
    /\ fetch_args = NoArguments /\ env_key = FALSE /\ http_gets = << >>

\* the client before the call: no token yet, or the token of an earlier login
\* that is 59 or 60 minutes old
InitFetch ==
    /\ call = "none" /\ raised = "none"
    /\ fetch_args \in FetchArguments
    /\ env_key \in BOOLEAN
    /\ http_gets = << >>
    /\ returned = << >>
    /\ \/ token = NoToken /\ now = 0 /\ logins = 0 /\ calls = 0
       \/ /\ token = << [ id_token |-> <<1>>, acquired_at |-> 0 ] >>
          /\ now \in { TOKEN_LIFETIME - 1, TOKEN_LIFETIME }
          /\ logins = 1 /\ calls = 1

\* client.fetch_data(...): the login request, if one is issued, and the GET
\* are answered by the servers
FetchData ==
    /\ call = "none"
    /\ call' = "fetch_data"
    /\ \E login_answer \in { Granted(logins + 1) } \cup Refusals, get_answer \in GetAnswers :
           LET r == fetch_data(fetch_args, token, now, env_key, login_answer, get_answer)
           IN  /\ raised' = r.raised
               /\ token' = r.token
               /\ logins' = IF r.login THEN logins + 1 ELSE logins
               /\ calls' = IF r.called THEN calls + 1 ELSE calls
               /\ http_gets' = r.gets
    /\ UNCHANGED <<fetch_args, env_key, now, returned>>

-----------------------------------------------------------------------------
(* Tool dispatcher: server/main.py *)

\* the tools of list_tools()
Tools ==
    { "fetch_ercot_data", "list_available_endpoints", "normalize_ercot_dataframe",
      "get_endpoint_info", "get_net_load_forecast", "day_ahead_price_forecast",
      "rolling_forecast_cross_validation" }

\* a returned TextContent: the text is the tuple of its parts
TextContent(parts) == [ type |-> "text", text |-> parts ]

\* the exception an operation behind a tool raises on this call ("none" when
\* it returns): get_client() without credentials, a failed fetch, too few
\* days of data, a dataframe_json that does not parse
OperationRaised(operation, outcome) ==
    CASE outcome = "no credentials" /\ operation = "get_client" -> "ValueError"
      [] outcome = "fetch failure"
            /\ operation \in {"fetch_data", "get_net_load_forecast", "day_ahead_forecast",
                              "rolling_forecast_cv"} -> "HTTPError"
      [] outcome = "insufficient data" /\ operation = "rolling_forecast_cv" -> "ValueError"
      [] outcome = "bad json" /\ operation = "json.loads" -> "JSONDecodeError"
      [] OTHER -> "none"

\* the operations run one after the other until one raises: the exception
\* and the operations invoked
RECURSIVE Invoke(_, _)
Invoke(ops, outcome) ==
    IF ops = << >> THEN [ raised |-> "none", operations |-> << >> ]
    ELSE IF OperationRaised(Head(ops), outcome) # "none"
    THEN [ raised |-> OperationRaised(Head(ops), outcome), operations |-> << Head(ops) >> ]
    ELSE LET rest == Invoke(Tail(ops), outcome)
         IN  [ raised |-> rest.raised, operations |-> << Head(ops) >> \o rest.operations ]

\* the body of the try block for a tool of the list: the exception raised,
\* the operations invoked and the first part of the returned text
ToolBody(name, args, outcome) ==
    IF ~ args.isdict
    THEN \* arguments.get of something that is no dictionary
         [ raised |-> "AttributeError", operations |-> << >>, text |-> "" ]
    ELSE CASE name = "fetch_ercot_data" ->
                LET client == Invoke(<<"get_client">>, outcome)
                IN  IF client.raised # "none" THEN client @@ [ text |-> "" ]
                    ELSE IF ~ validate_endpoint(args.endpoint_name)
                    THEN [ raised |-> "ValueError",
                           operations |-> <<"get_client", "fetch_data">>, text |-> "" ]
                    ELSE Invoke(<<"get_client", "fetch_data">>, outcome)
                             @@ [ text |-> "Successfully fetched " ]
           [] name = "list_available_endpoints" ->
                [ raised |-> list_endpoints(args.category).raised,
                  operations |-> <<"list_endpoints">>, text |-> "Found " ]
           [] name = "normalize_ercot_dataframe" ->
                Invoke(<<"json.loads", "normalize_ercot_dataframe">>, outcome)
                    @@ [ text |-> "Normalized DataFrame with " ]
           [] name = "get_endpoint_info" ->
                [ raised |-> get_endpoint_spec(args.endpoint_name).raised,
                  operations |-> <<"get_endpoint_spec">>, text |-> "Endpoint Information: " ]
           [] name = "get_net_load_forecast" ->
                Invoke(<<"get_client", "get_net_load_forecast">>, outcome)
                    @@ [ text |-> "Net Load Forecast: " ]
           [] name = "day_ahead_price_forecast" ->
                Invoke(<<"get_client", "day_ahead_forecast">>, outcome)
                    @@ [ text |-> "Day-Ahead Price Forecast" ]
           [] OTHER ->
                Invoke(<<"get_client", "rolling_forecast_cv">>, outcome)
                    @@ [ text |-> "Rolling Forecast Cross-Validation Results" ]

\* a dispatcher that lets the exception through to its host
call_tool_reraise(e, invoked) ==
    [ raised |-> e, result |-> << >>, operations |-> invoked ]

\* except Exception as e: the exception as one text
call_tool_except(e, invoked) ==
    [ raised |-> "none", result |-> << TextContent(<<"Error: ", e>>) >>,
      operations |-> invoked ]

\* call_tool(name, arguments): the exception raised to the host, the list
\* returned and the operations invoked
call_tool(name, args, outcome) ==
    IF name \in Tools
    THEN LET body == ToolBody(name, args, outcome)
         IN  IF body.raised # "none"
             THEN call_tool_except(body.raised, body.operations)
             ELSE [ raised |-> "none", result |-> << TextContent(<<body.text>>) >>,
                    operations |-> body.operations ]
    ELSE [ raised |-> "none", result |-> << TextContent(<<"Unknown tool: ", name>>) >>,
           operations |-> << >> ]

\* ---- inputs
ToolNames == Tools \cup { "bogus_tool", "", "fetch_data" }

ToolArguments ==
    [ isdict : BOOLEAN, category : CategoryArguments \ {""},
      endpoint_name : { "da_prices", "wind_prod_5min", "bogus" } ]

OperationOutcomes ==
    { "returns", "no credentials", "fetch failure", "insufficient data", "bad json" }

IdleTool ==
    /\ tool_name = ""
    /\ arguments = [ isdict |-> FALSE, category |-> "", endpoint_name |-> "" ]
    /\ operation_outcome = "returns"
    /\ tool_result = << >> /\ operations = << >>

InitTool ==
    /\ call = "none" /\ raised = "none"
    /\ tool_name \in ToolNames
    /\ arguments \in ToolArguments
    /\ operation_outcome \in OperationOutcomes
    /\ tool_result = << >> /\ operations = << >>

CallTool ==
    /\ call = "none"
    /\ call' = "call_tool"
    /\ LET r == call_tool(tool_name, arguments, operation_outcome)
       IN  raised' = r.raised /\ tool_result' = r.result /\ operations' = r.operations
    /\ UNCHANGED <<tool_name, arguments, operation_outcome>>

-----------------------------------------------------------------------------
(* Specifications: one per component, the other components idle *)

VintageInit == InitVintage /\ IdleSplits /\ IdleDatetime /\ IdleHour /\ IdleNames /\ IdleNet /\ IdleCv /\ IdleDayAhead /\ IdleAuth /\ IdleCatalog /\ IdleFetch /\ IdleTool

VintageNext ==
    \/ FilterForecastByPosted /\ UNCHANGED <<splitVars, dtVars, hourVars, namesVars, netVars, cvVars, dafVars, authVars, catalogVars, fetchVars, toolVars>>
    \/ GetVintageForecast /\ UNCHANGED <<splitVars, dtVars, hourVars, namesVars, netVars, cvVars, dafVars, authVars, catalogVars, fetchVars, toolVars>>

SpecVintage == VintageInit /\ [][VintageNext]_vars

LoadVintageInit == InitLoadVintage /\ IdleSplits /\ IdleDatetime /\ IdleHour /\ IdleNames /\ IdleNet /\ IdleCv /\ IdleDayAhead /\ IdleAuth /\ IdleCatalog /\ IdleFetch /\ IdleTool

GetVintageNext ==
    GetVintageForecast /\ UNCHANGED <<splitVars, dtVars, hourVars, namesVars, netVars, cvVars, dafVars, authVars, catalogVars, fetchVars, toolVars>>

SpecLoadVintage == LoadVintageInit /\ [][GetVintageNext]_vars

CutoffInit == InitCutoff /\ IdleSplits /\ IdleDatetime /\ IdleHour /\ IdleNames /\ IdleNet /\ IdleCv /\ IdleDayAhead /\ IdleAuth /\ IdleCatalog /\ IdleFetch /\ IdleTool

SpecCutoff == CutoffInit /\ [][GetVintageNext]_vars

SplitsInit == InitSplits /\ IdleVintage /\ IdleDatetime /\ IdleHour /\ IdleNames /\ IdleNet /\ IdleCv /\ IdleDayAhead /\ IdleAuth /\ IdleCatalog /\ IdleFetch /\ IdleTool

SplitsNext == CreateRollingSplits /\ UNCHANGED <<vintageVars, dtVars, hourVars, namesVars, netVars, cvVars, dafVars, authVars, catalogVars, fetchVars, toolVars>>

SpecSplits == SplitsInit /\ [][SplitsNext]_vars

DatetimeInit == InitDatetime /\ IdleVintage /\ IdleSplits /\ IdleHour /\ IdleNames /\ IdleNet /\ IdleCv /\ IdleDayAhead /\ IdleAuth /\ IdleCatalog /\ IdleFetch /\ IdleTool

DatetimeNext == AddDatetimeColumn /\ UNCHANGED <<vintageVars, splitVars, hourVars, namesVars, netVars, cvVars, dafVars, authVars, catalogVars, fetchVars, toolVars>>

SpecDatetime == DatetimeInit /\ [][DatetimeNext]_vars

DatetimeNullsInit == InitDatetimeNulls /\ IdleVintage /\ IdleSplits /\ IdleHour /\ IdleNames /\ IdleNet /\ IdleCv /\ IdleDayAhead /\ IdleAuth /\ IdleCatalog /\ IdleFetch /\ IdleTool

SpecDatetimeNulls == DatetimeNullsInit /\ [][DatetimeNext]_vars

HourInit == InitHour /\ IdleVintage /\ IdleSplits /\ IdleDatetime /\ IdleNames /\ IdleNet /\ IdleCv /\ IdleDayAhead /\ IdleAuth /\ IdleCatalog /\ IdleFetch /\ IdleTool

HourNext == ParseHourEnding /\ UNCHANGED <<vintageVars, splitVars, dtVars, namesVars, netVars, cvVars, dafVars, authVars, catalogVars, fetchVars, toolVars>>

SpecHour == HourInit /\ [][HourNext]_vars

NamesInit == InitNames /\ IdleVintage /\ IdleSplits /\ IdleDatetime /\ IdleHour /\ IdleNet /\ IdleCv /\ IdleDayAhead /\ IdleAuth /\ IdleCatalog /\ IdleFetch /\ IdleTool

NamesNext ==
    \/ NormalizeColumnNames /\ UNCHANGED <<vintageVars, splitVars, dtVars, hourVars, netVars, cvVars, dafVars, authVars, catalogVars, fetchVars, toolVars>>
    \/ NormalizeColumnNamesAgain /\ UNCHANGED <<vintageVars, splitVars, dtVars, hourVars, netVars, cvVars, dafVars, authVars, catalogVars, fetchVars, toolVars>>

SpecNames == NamesInit /\ [][NamesNext]_vars

NetInit == InitNet /\ IdleVintage /\ IdleSplits /\ IdleDatetime /\ IdleHour /\ IdleNames /\ IdleCv /\ IdleDayAhead /\ IdleAuth /\ IdleCatalog /\ IdleFetch /\ IdleTool

NetNext ==
    GetNetLoadForecast /\ UNCHANGED <<vintageVars, splitVars, dtVars, hourVars, namesVars, cvVars, dafVars, authVars, catalogVars, fetchVars, toolVars>>

SpecNet == NetInit /\ [][NetNext]_vars

CvInit == InitCv /\ IdleVintage /\ IdleDatetime /\ IdleHour /\ IdleNames /\ IdleNet /\ IdleDayAhead /\ IdleAuth /\ IdleCatalog /\ IdleFetch /\ IdleTool

CvNext ==
    RollingForecastCv /\ UNCHANGED <<vintageVars, dtVars, hourVars, namesVars, netVars, dafVars, authVars, catalogVars, fetchVars, toolVars>>

SpecCv == CvInit /\ [][CvNext]_vars

DayAheadInit == InitDayAhead /\ IdleVintage /\ IdleSplits /\ IdleDatetime /\ IdleHour /\ IdleNames /\ IdleNet /\ IdleCv /\ IdleAuth /\ IdleCatalog /\ IdleFetch /\ IdleTool

DayAheadNext ==
    DayAheadForecast /\ UNCHANGED <<vintageVars, splitVars, dtVars, hourVars, namesVars, netVars, cvVars, authVars, catalogVars, fetchVars, toolVars>>

SpecDayAhead == DayAheadInit /\ [][DayAheadNext]_vars

AuthInit == InitAuth /\ IdleVintage /\ IdleSplits /\ IdleDatetime /\ IdleHour /\ IdleNames /\ IdleNet /\ IdleCv /\ IdleDayAhead /\ IdleCatalog /\ IdleFetch /\ IdleTool

\* every login succeeds with a token that is not empty
AuthNext ==
    \/ GetValidToken({ Granted(logins + 1) }) /\ UNCHANGED <<vintageVars, splitVars, dtVars, hourVars, namesVars, netVars, cvVars, dafVars, catalogVars, fetchVars, toolVars>>
    \/ Tick /\ UNCHANGED <<vintageVars, splitVars, dtVars, hourVars, namesVars, netVars, cvVars, dafVars, catalogVars, fetchVars, toolVars>>

SpecAuth == AuthInit /\ [][AuthNext]_vars

\* a login succeeds or fails
AuthFailingNext ==
    \/ GetValidToken({ Granted(logins + 1) } \cup Refusals) /\ UNCHANGED <<vintageVars, splitVars, dtVars, hourVars, namesVars, netVars, cvVars, dafVars, catalogVars, fetchVars, toolVars>>
    \/ Tick /\ UNCHANGED <<vintageVars, splitVars, dtVars, hourVars, namesVars, netVars, cvVars, dafVars, catalogVars, fetchVars, toolVars>>

SpecAuthFailing == AuthInit /\ [][AuthFailingNext]_vars

CatalogInit == InitCatalog /\ IdleVintage /\ IdleSplits /\ IdleDatetime /\ IdleHour /\ IdleNames /\ IdleNet /\ IdleCv /\ IdleDayAhead /\ IdleAuth /\ IdleFetch /\ IdleTool

CatalogNext ==
    \/ ListEndpoints /\ UNCHANGED <<vintageVars, splitVars, dtVars, hourVars, namesVars, netVars, cvVars, dafVars, authVars, fetchVars, toolVars>>
    \/ GetEndpointSpec /\ UNCHANGED <<vintageVars, splitVars, dtVars, hourVars, namesVars, netVars, cvVars, dafVars, authVars, fetchVars, toolVars>>

SpecCatalog == CatalogInit /\ [][CatalogNext]_vars

FetchInit == InitFetch /\ IdleVintage /\ IdleSplits /\ IdleDatetime /\ IdleHour /\ IdleNames /\ IdleNet /\ IdleCv /\ IdleDayAhead /\ IdleCatalog /\ IdleTool

FetchNext ==
    FetchData /\ UNCHANGED <<vintageVars, splitVars, dtVars, hourVars, namesVars, netVars, cvVars, dafVars, catalogVars, toolVars>>

SpecFetch == FetchInit /\ [][FetchNext]_vars

ToolInit == InitTool /\ IdleVintage /\ IdleSplits /\ IdleDatetime /\ IdleHour /\ IdleNames /\ IdleNet /\ IdleCv /\ IdleDayAhead /\ IdleAuth /\ IdleCatalog /\ IdleFetch

ToolNext ==
    CallTool /\ UNCHANGED <<vintageVars, splitVars, dtVars, hourVars, namesVars, netVars, cvVars, dafVars, authVars, catalogVars, fetchVars>>

SpecTool == ToolInit /\ [][ToolNext]_vars

-----------------------------------------------------------------------------
(* Properties of the vintage forecast selector *)

\* the parsed PostedDatetime values of the rows of t whose DATETIME is d
PostedAt(t, d) ==
    { to_datetime(t[i]["PostedDatetime"]) : i \in { k \in DOMAIN t : t[k]["DATETIME"] = d } }
        \ {Null}

\* the DATETIME values a table holds (a row whose DATETIME is NaT holds none)
DatetimesOf(t) == { t[i]["DATETIME"] : i \in DOMAIN t } \ {Null}

\* C1: filter_forecast_by_posted returns exactly one row per distinct DATETIME
\* value of a non-empty input, no row for any other DATETIME, and the
\* PostedDatetime of that row is the maximum PostedDatetime of the input rows
\* with that DATETIME.
C1_OneRowPerDatetimeLatestPosted ==
    (call = "filter_forecast_by_posted" /\ dat # << >>) =>
        /\ \A d \in DatetimesOf(dat) :
              Cardinality({ j \in DOMAIN datout : datout[j]["DATETIME"] = d }) = 1
        /\ \A j \in DOMAIN datout :
              /\ datout[j]["DATETIME"] \in DatetimesOf(dat)
              /\ LET P == PostedAt(dat, datout[j]["DATETIME"])
                 IN  datout[j]["PostedDatetime"] = IF P = {} THEN Null ELSE Max(P)

\* C1 witness: two postings of one DATETIME, the later one first in the input,
\* reduced to the single row of the later posting.
C1_Witness ==
    /\ call = "filter_forecast_by_posted"
    /\ Len(dat) = 2 /\ Len(datout) = 1
    /\ dat[1]["DATETIME"] = dat[2]["DATETIME"] /\ dat[1]["DATETIME"] # Null
    /\ dat[1]["PostedDatetime"] = <<0, 8, 0>> /\ dat[2]["PostedDatetime"] = <<0, 6, 0>>
    /\ datout[1]["PostedDatetime"] = timedelta(0, 8, 0)

\* C2: no row returned by get_vintage_forecast is posted later than the cutoff
\* sent with the fetch, and the row kept for a DATETIME carries the latest
\* PostedDatetime among the fetched rows that do not exceed the cutoff.
C2_NoRowPostedAfterCutoff ==
    call = "get_vintage_forecast" =>
        \A j \in DOMAIN datout :
            LET cutoff == to_datetime(postedDatetimeTo)
                ok == { p \in PostedAt(dat, datout[j]["DATETIME"]) : p <= cutoff }
            IN  /\ datout[j]["PostedDatetime"] <= cutoff
                /\ ok # {} => datout[j]["PostedDatetime"] = Max(ok)


\* C17: the cutoff sent with the fetch is 07:00:00 on the day before date_to,
\* date_to being date_from when none is given; when a date_to is given the
\* cutoff does not depend on date_from.
C17_CutoffFromDateTo ==
    call = "get_vintage_forecast" =>
        LET last == IF date_to = NullStr THEN date_from ELSE date_to
        IN  postedDatetimeTo = << last[1] - 1, 7, 0 >>

\* C17 witness: a request for days 2 to 5 sent the cutoff day 4, 07:00.
C17_Witness ==
    /\ call = "get_vintage_forecast"
    /\ date_from = <<2>> /\ date_to = <<5>>
    /\ postedDatetimeTo = <<4, 7, 0>>

\* the models of a fetched table
ModelsOf(t) == { t[i]["Model"] : i \in DOMAIN t } \ {Null}

\* the SystemTotal of the latest posting of one model for one DATETIME (the
\* later row when two carry the same PostedDatetime), missing when there is
\* none
LatestTotal(t, d, model) ==
    LET rows == { i \in DOMAIN t : t[i]["DATETIME"] = d /\ t[i]["Model"] = model }
        top == { i \in rows : \A k \in rows :
                    to_datetime(t[k]["PostedDatetime"]) <= to_datetime(t[i]["PostedDatetime"]) }
    IN  IF rows = {} THEN Null ELSE t[Max(top)]["SystemTotal"]

\* the models whose name is one of E, A, M, X followed by a digit
NamedModels == { i \in DOMAIN ModelNames :
                   /\ Len(ModelNames[i]) = 2
                   /\ ModelNames[i][1] \in {"E", "A", "M", "X"}
                   /\ ModelNames[i][2] \in Range(Digits) }

\* C18: a fetched table with a Model column, whatever the endpoint, comes
\* back with one row per DATETIME, whose MedianLoadForecast is the median of
\* the latest postings of the models, taken per (Model, DATETIME) pair, over
\* the models named by a letter of E, A, M, X and a digit, or over all models
\* when the table has no model so named.
C18_PerModelLatestThenMedian ==
    (/\ call = "get_vintage_forecast"
     /\ dat # << >>
     /\ "Model" \in DOMAIN dat[1]) =>
        /\ raised = "none"
        /\ Len(datout) = Cardinality(DatetimesOf(dat))
        /\ \A j \in DOMAIN datout :
              LET d == datout[j]["DATETIME"]
                  latest == [ model \in ModelsOf(dat) |-> LatestTotal(dat, d, model) ]
                  named == ModelsOf(dat) \cap NamedModels
              IN  /\ d \in DatetimesOf(dat)
                  /\ \A k \in DOMAIN datout : datout[k]["DATETIME"] = d => k = j
                  /\ "MedianLoadForecast" \in DOMAIN datout[j]
                  /\ datout[j]["MedianLoadForecast"] =
                        median(latest, IF named # {} THEN named ELSE ModelsOf(dat))

-----------------------------------------------------------------------------
(* Properties of the net load composer *)

\* a cell read as a number, a missing one as 0
Val(x) == IF x = Null THEN 0 ELSE x

\* C14: in every returned row Renewables is SolarHSLSystemWide +
\* WindHSLSystemWide (a missing value counting as 0) and NetLoad is
\* MedianLoadForecast - Renewables, whatever other columns the fetched solar
\* and wind tables carry.
C14_RenewablesIsSolarPlusWind ==
    (call = "get_net_load_forecast" /\ raised = "none") =>
        \A j \in DOMAIN net_load :
            LET row == net_load[j]
            IN  /\ row["Renewables"] =
                      Val(row["SolarHSLSystemWide"]) + Val(row["WindHSLSystemWide"])
                /\ row["NetLoad"] =
                      IF row["MedianLoadForecast"] = Null THEN Null
                      ELSE row["MedianLoadForecast"] - row["Renewables"]

\* the fetched table has no column named with both COPHSL and SystemWide
LacksCOPHSL(fetched) ==
    \/ fetched = << >>
    \/ DOMAIN fetched[1] \cap {"COPHSLSystemWide", "COPHSLSystemWide2"} = {}

\* C15: when the solar or the wind table has no column named with both
\* COPHSL and SystemWide, an empty table included, the call does not fail:
\* every returned row carries 0 (or nothing) for that source, and Renewables
\* and NetLoad = MedianLoadForecast - Renewables all the same.
C15_MissingColumnIsZero ==
    (/\ call = "get_net_load_forecast"
     /\ load_fetched # << >>
     /\ LacksCOPHSL(solar_fetched) \/ LacksCOPHSL(wind_fetched)) =>
        /\ raised = "none"
        /\ \A j \in DOMAIN net_load :
              LET row == net_load[j]
              IN  /\ LacksCOPHSL(solar_fetched) => row["SolarHSLSystemWide"] = 0
                  /\ LacksCOPHSL(wind_fetched) => Val(row["WindHSLSystemWide"]) = 0
                  /\ row["Renewables"] # Null
                  /\ row["NetLoad"] = Minus(row["MedianLoadForecast"], row["Renewables"])

\* C16: the call returns one row per DATETIME of the solar table, in the
\* solar vintage table's order (DATETIME ascending), whatever DATETIME values
\* the wind and load tables hold or lack.
C16_OneRowPerSolarDatetime ==
    call = "get_net_load_forecast" =>
        /\ raised = "none"
        /\ [ j \in DOMAIN net_load |-> net_load[j]["DATETIME"] ]
              = sorted(DatetimesOf(solar_fetched))

-----------------------------------------------------------------------------
(* Properties of the rolling split generator *)

DatesOf(t) == { t[i]["Date"] : i \in DOMAIN t }

\* the index of a date among the sorted distinct dates, from 0
Rank(t, d) == Cardinality({ e \in DatesOf(t) : e < d })

IndexSet(frame) == { frame[i].index : i \in DOMAIN frame }

\* C3: in every returned split, every training row's date is strictly earlier
\* than every test row's date, and no row is in both sets.
C3_TrainBeforeTest ==
    call = "create_rolling_splits" =>
        \A j \in DOMAIN splits :
            \A a \in Range(splits[j].train_data), b \in Range(splits[j].test_data) :
                /\ a.row["Date"] < b.row["Date"]
                /\ a.index # b.index

\* C3 witness: a fixed-window run that returned two splits.
C3_Witness ==
    /\ call = "create_rolling_splits" /\ ~ expanding_window
    /\ Len(splits) = 2
    /\ Len(splits[2].train_data) >= 1

\* C4: with N distinct dates and 1 <= k < N the call returns N - k splits, the
\* i-th with the date at sorted index k + i as test date (ascending, distinct),
\* and each test set holds all input rows of its test date.
C4_OneSplitPerTestDate ==
    LET N == Cardinality(DatesOf(data))
        k == initial_training_days
    IN  (call = "create_rolling_splits" /\ 1 <= k /\ k < N) =>
            /\ raised = "none"
            /\ Len(splits) = N - k
            /\ \A j \in DOMAIN splits :
                  /\ Rank(data, splits[j].test_date) = k + (j - 1)
                  /\ splits[j].test_date \in DatesOf(data)
                  /\ IndexSet(splits[j].test_data)
                        = { i \in DOMAIN data : data[i]["Date"] = splits[j].test_date }
                  /\ j < Len(splits) => splits[j].test_date < splits[j + 1].test_date

\* C4 witness: three dates, one training day, two splits.
C4_Witness ==
    /\ call = "create_rolling_splits" /\ initial_training_days = 1
    /\ Cardinality(DatesOf(data)) = 3
    /\ Len(splits) = 2

\* C5: the split with test date at sorted index i trains on the dates at
\* indices [0, i) when expanding, and [max(0, i - k), i) otherwise, which are
\* then exactly k dates; its training set holds all input rows of those dates
\* and no other row.
C5_TrainingWindow ==
    call = "create_rolling_splits" =>
        \A j \in DOMAIN splits :
            LET k == initial_training_days
                i == Rank(data, splits[j].test_date)
                lo == IF expanding_window THEN 0 ELSE IF i - k > 0 THEN i - k ELSE 0
                want == { d \in DatesOf(data) : lo <= Rank(data, d) /\ Rank(data, d) < i }
            IN  /\ { x.row["Date"] : x \in Range(splits[j].train_data) } = want
                /\ IndexSet(splits[j].train_data)
                      = { r \in DOMAIN data : data[r]["Date"] \in want }
                /\ ~ expanding_window => Cardinality(want) = k

\* C5 witness: a fixed-window split whose window does not start at the first
\* date.
C5_Witness ==
    /\ call = "create_rolling_splits" /\ ~ expanding_window
    /\ \E j \in DOMAIN splits :
          /\ Rank(data, splits[j].test_date) > initial_training_days
          /\ Len(splits[j].train_data) = initial_training_days

\* C6: the call raises ValueError exactly when the number of distinct dates is
\* at most initial_training_days, and then returns no split.
C6_InsufficientDataIff ==
    call = "create_rolling_splits" =>
        /\ raised = "ValueError" <=> Cardinality(DatesOf(data)) <= initial_training_days
        /\ raised = "ValueError" => splits = << >>
        /\ raised \in {"none", "ValueError"}

\* C6 witness: as many dates as training days, the smallest shortfall.
C6_Witness ==
    /\ call = "create_rolling_splits" /\ raised = "ValueError"
    /\ Cardinality(DatesOf(data)) = initial_training_days
    /\ initial_training_days = 2

-----------------------------------------------------------------------------
(* Properties of the rolling cross-validation *)

\* C19: whatever splits raise in fit, predict or the metrics, all of them
\* included, the call returns its result instead of raising (at least one
\* split having been created).
C19_SplitFailuresNeverAbort ==
    (call = "rolling_forecast_cv" /\ splits # << >>) => raised = "none"

RECURSIVE SumHours(_)
SumHours(metrics) ==
    IF metrics = << >> THEN 0 ELSE Head(metrics).hours + SumHours(Tail(metrics))

-----------------------------------------------------------------------------
(* Properties of the timestamp resolver *)

\* the seven documented patterns: the column sets that make up each
PatternColumns(p) ==
    CASE p = 1 -> { {"DeliveryDate", "DeliveryHour", "DeliveryInterval"} }
      [] p = 2 -> { {"IntervalEnding"} }
      [] p = 3 -> { {"OperatingDay", "HourEnding"} }
      [] p = 4 -> { {"OperatingDate", "HourEnding"} }
      [] p = 5 -> { {"DeliveryDate", "DeliveryHour"} }
      [] p = 6 -> { {"DeliveryDate", "HourEnding"} }
      [] p = 7 -> { {"SCEDTimestamp"}, {"SCEDTimeStamp"} }

\* the patterns all of whose columns a set of columns contains
Matched(cols) == { p \in 1..7 : \E S \in PatternColumns(p) : S \subseteq cols }

FirstMatched(cols) == CHOOSE p \in Matched(cols) : \A q \in Matched(cols) : p <= q

\* the day number of a date cell "YYYY-MM-DD"
DayOf(cell) == cell[1]

\* C7: a set of columns that contains all columns of several patterns is
\* resolved by the pattern with the smallest number.
C7_PatternPriority ==
    (call = "add_datetime_column" /\ Cardinality(Matched(df.columns)) >= 2) =>
        /\ raised = "none"
        /\ used_pattern = FirstMatched(df.columns)
        /\ "DATETIME" \in df_out.columns

\* C8: a table whose columns contain all the columns of none of the seven
\* patterns comes back without error and without DATETIME, its other columns
\* and rows unchanged.
C8_NoPatternNoError ==
    (call = "add_datetime_column" /\ Matched(df.columns) = {}) =>
        /\ raised = "none"
        /\ "DATETIME" \notin df_out.columns
        /\ df_out = df

\* C10: a table resolved by pattern 5 gets DATETIME = DeliveryDate +
\* DeliveryHour hours (no hour subtracted), one resolved by pattern 1 gets
\* DeliveryDate + DeliveryHour hours + DeliveryInterval * 5 minutes, and every
\* other column of every row keeps its value.
C10_DeliveryHourIsHourBeginning ==
    (/\ call = "add_datetime_column"
     /\ Matched(df.columns) # {}
     /\ FirstMatched(df.columns) \in {1, 5}) =>
        /\ raised = "none"
        /\ df_out.columns = df.columns \cup {"DATETIME"}
        /\ Len(df_out.rows) = Len(df.rows)
        /\ \A i \in DOMAIN df.rows :
              LET row == df.rows[i]
                  start == DayOf(row["DeliveryDate"]) * 24 * 60 + row["DeliveryHour"] * 60
              IN  /\ df_out.rows[i]["DATETIME"] =
                        IF FirstMatched(df.columns) = 1
                        THEN start + row["DeliveryInterval"] * 5
                        ELSE start
                  /\ \A c \in df.columns : df_out.rows[i][c] = row[c]

\* C10 witness: DeliveryDate day 1, DeliveryHour 1, SettlementPointPrice 25
\* yields DATETIME day 1 01:00 with the price kept.
C10_Witness ==
    /\ call = "add_datetime_column"
    /\ df.columns = {"DeliveryDate", "DeliveryHour", "SettlementPointPrice"}
    /\ Len(df.rows) = 1
    /\ df.rows[1]["DeliveryDate"] = <<1>> /\ df.rows[1]["DeliveryHour"] = 1
    /\ df_out.rows[1]["DATETIME"] = 24 * 60 + 60
    /\ df_out.rows[1]["SettlementPointPrice"] = 25

\* C11: every table whose columns hold all the columns of one of the seven
\* patterns (and all the columns its branch reads) comes back without error
\* and with a DATETIME that is not missing in any row, also when a row's date,
\* hour or hour-ending cell is missing.
C11_DatetimeNeverNull ==
    (/\ call = "add_datetime_column"
     /\ Matched(df.columns) # {}
     /\ ColumnsRead(ResolvedPattern(df.columns), df.columns) \subseteq df.columns) =>
        /\ raised = "none"
        /\ \A i \in DOMAIN df_out.rows : df_out.rows[i]["DATETIME"] # Null

-----------------------------------------------------------------------------
(* Properties of the column name normalizer *)

\* C12: normalizing a normalized table changes no column name: the second
\* call returns the column names of the first, in the same order, for names
\* built from upper-case and lower-case letters, digits, spaces, hyphens and
\* underscores.
C12_NormalizeIdempotent ==
    call = "normalize_column_names twice" => names_out.columns = names_df.columns

Separators == {" ", "-", "_"}

\* the positions of a name that are not separators, in order
Kept(name) == SelectSeq([ i \in DOMAIN name |-> i ], LAMBDA i : name[i] \notin Separators)

\* position i of a name starts a segment: the first character, a character
\* after a separator, an upper-case letter after a lower-case letter or digit
StartsSegment(name, i) ==
    \/ i = 1
    \/ name[i - 1] \in Separators
    \/ (islower(name[i - 1]) \/ isdigit(name[i - 1])) /\ isupper(name[i])

-----------------------------------------------------------------------------
(* Properties of the hour-ending resolution *)

\* the hour an hour-ending cell names
HourNamed(he) ==
    IF he.isstr THEN CHOOSE h \in 1..24 : HourString(h) = he.s ELSE he.n

-----------------------------------------------------------------------------
(* Properties of the day-ahead forecast *)

\* the target date of the call
TargetDate == ForecastDate(forecast_date, today)

\* the training-window fetches are those up to the price fetch (all the
\* fetches when the call ended before it): the forecast-date fetches follow it
TrainingRequests ==
    LET prices == { i \in DOMAIN requests : requests[i].endpoint_name = "da_system_lambda" }
    IN  IF prices = {} THEN DOMAIN requests ELSE 1..Max(prices)

ForecastRequests == DOMAIN requests \ TrainingRequests

\* a fetch of the training window was answered an error
TrainingFetchFailed ==
    \E i \in TrainingRequests :
        LET e == requests[i].endpoint_name
            answer == CASE e = "solar_system_forecast" -> answers.training.solar
                        [] e = "wind_system_forecast" -> answers.training.wind
                        [] e = "ercot_zone_load_forecast" -> answers.training.load
                        [] OTHER -> answers.lambda
        IN  answer = "error"

\* the training completed, and the net load of the forecast date could not be
\* fetched (a fetch failed, or the solar fetch came back empty) or not be
\* processed (its load forecast is of other hours, so NetLoad is missing)
ForecastDataFailed ==
    /\ ForecastRequests # {}
    /\ \/ answers.forecast.solar \in {"error", "empty"}
       \/ answers.forecast.wind = "error"
       \/ answers.forecast.load \in {"error", "shifted"}

\* the training table of the call: the rows of the answered net load and
\* price tables of the training window
TrainedOn ==
    LET from == requests[1].date_from
        to == requests[1].date_to
        net == NetLoadCall(from, to, answers.training)
    IN  inner_merge(net.out, LambdaAnswer(answers.lambda, from, to), {"SystemLambda"})

\* C21: when the net-load data of the forecast date cannot be fetched or
\* processed, day_ahead_forecast does not raise: it returns the model trained
\* on the training window, the training metrics and the parameters of a
\* successful call, with an empty forecast table; a failed fetch of the
\* training window propagates to the caller.
C21_ForecastFailureDegrades ==
    call = "day_ahead_forecast" =>
        /\ ForecastDataFailed =>
              /\ raised = "none"
              /\ Len(result) = 1
              /\ result[1].forecast = << >>
              /\ result[1].model =
                    << [ X |-> Column(TrainedOn, "NetLoad"),
                         y |-> Column(TrainedOn, "SystemLambda"),
                         degree |-> polynomial_degree ] >>
              /\ result[1].training_performance = training_performance(result[1].model)
              /\ result[1].parameters =
                    [ forecast_date |-> TargetDate, training_days |-> training_days,
                      training_period |-> << TargetDate - training_days, TargetDate - 1 >>,
                      polynomial_degree |-> polynomial_degree ]
        /\ TrainingFetchFailed => (raised = "HTTPError" /\ result = << >>)

C21_Witness ==
    /\ call = "day_ahead_forecast"
    /\ ForecastDataFailed
    /\ answers.forecast.wind = "error"
    /\ Len(result) = 1
    /\ result[1].forecast = << >>
    /\ Len(result[1].model[1].X) = 2

\* a call whose training-window fetch failed
C21_WitnessTrainingFailure ==
    /\ call = "day_ahead_forecast"
    /\ TrainingFetchFailed
    /\ raised = "HTTPError"

\* C22: for every target date and training_days >= 1, day_ahead_forecast
\* requests training data for exactly training_days consecutive calendar days,
\* from target - training_days to target - 1 inclusive; the target date is
\* never part of the training window, and the net-load fetches and the price
\* fetch use the same window.
C22_TrainingWindow ==
    (call = "day_ahead_forecast" /\ training_days >= 1) =>
        /\ requests # << >>
        /\ \A i \in TrainingRequests :
              /\ requests[i].date_from = date_strftime(TargetDate - training_days)
              /\ requests[i].date_to = date_strftime(TargetDate - 1)
              /\ Cardinality(DaysOf(requests[i].date_from, requests[i].date_to)) = training_days
              /\ TargetDate \notin DaysOf(requests[i].date_from, requests[i].date_to)
              /\ requests[i].date_from = requests[1].date_from
              /\ requests[i].date_to = requests[1].date_to

C22_Witness ==
    /\ call = "day_ahead_forecast"
    /\ training_days = 2
    /\ forecast_date.kind = "none"
    /\ Cardinality(TrainingRequests) = 4
    /\ requests[4].endpoint_name = "da_system_lambda"
    /\ requests[4].date_from = date_strftime(TargetDate - 2)

-----------------------------------------------------------------------------
(* Properties of the token manager *)

\* a step that is a get_valid_token call
GetValidTokenStep == calls' = calls + 1

\* the age of the stored token at the call
Fresh == token # NoToken /\ now - token[1].acquired_at < timedelta(0, 1, 0)

\* C25: when every login succeeds with a token that is not empty, a
\* get_valid_token call issues a login request only when it finds no stored
\* token or one acquired 1 hour or more ago; a call made less than 1 hour
\* after the last acquisition returns the stored token without a login, so
\* two such consecutive calls return the same token with one login in total.
C25_LoginOnlyWhenExpired ==
    [][GetValidTokenStep =>
          /\ raised' = "none"
          /\ IF Fresh
             THEN /\ logins' = logins
                  /\ token' = token
                  /\ returned' = << token[1].id_token >>
             ELSE /\ logins' = logins + 1
                  /\ token'[1].acquired_at = now
                  /\ returned' = << token'[1].id_token >>
          /\ (calls >= 1 /\ Fresh) => returned' = returned]_vars

\* two calls and a third one just under an hour after the only login
C25_Witness ==
    /\ call = "get_valid_token"
    /\ calls = 3
    /\ logins = 1
    /\ now - token[1].acquired_at = 59
    /\ returned = << <<1>> >>

\* a call exactly one hour after the acquisition logged in again
C25_WitnessExpired ==
    /\ call = "get_valid_token"
    /\ logins = 2
    /\ now = 60
    /\ token[1].acquired_at = 60

\* C29: when a login attempt made by get_valid_token fails, the error
\* propagates and the stored token is left as it was; nothing is stored or
\* returned from a failed login, and the next get_valid_token call attempts a
\* login again.
C29_FailedLoginLeavesToken ==
    [][GetValidTokenStep =>
          /\ raised' # "none" =>
                /\ logins' = logins + 1
                /\ token' = token
                /\ returned' = << >>
          /\ logins' = logins => raised' = "none"
          /\ \* what is stored or returned is the token a login granted
             \A t \in Range(token') :
                 t.id_token # EmptyString /\ t.id_token[1] \in 1..logins'
          /\ \A id \in Range(returned') : id # EmptyString /\ id = token'[1].id_token
          /\ (calls >= 1 /\ raised # "none") => logins' = logins + 1]_vars

\* a login failed over a stored, expired token, and the call after it tried
\* again and failed again
C29_Witness ==
    /\ call = "get_valid_token"
    /\ raised = "TimeoutError"
    /\ calls = 3
    /\ logins = 3
    /\ token # NoToken
    /\ token[1].id_token = <<1>>
    /\ returned = << >>

-----------------------------------------------------------------------------
(* Properties of the endpoint catalog *)

\* the names a list of specs holds
ListedNames == { listed[i].name : i \in DOMAIN listed }

\* the categories a name is listed in
CategoriesOf(name) ==
    { c \in DOMAIN ENDPOINT_CATEGORIES : name \in Range(ENDPOINT_CATEGORIES[c]) }

C27_WitnessUnknown ==
    /\ call = "list_endpoints"
    /\ category = "Prices"
    /\ raised = "ValueError"

-----------------------------------------------------------------------------
(* Properties of the API client *)

\* C23: fetch_data with an endpoint name that is not in the catalog raises
\* the unknown-endpoint error (ValueError) before any network call: neither a
\* login request nor an HTTP GET is issued on that call.
C23_UnknownEndpointNoNetwork ==
    [][(call' = "fetch_data" /\ call = "none"
            /\ \A i \in DOMAIN ANNOTATED_ENDPOINTS :
                   ANNOTATED_ENDPOINTS[i].name # fetch_args.endpoint_name) =>
          /\ raised' = "ValueError"
          /\ logins' = logins
          /\ token' = token
          /\ http_gets' = << >>]_vars

\* an unknown endpoint was refused while the client held no valid token
C23_Witness ==
    /\ call = "fetch_data"
    /\ fetch_args.endpoint_name = "bogus"
    /\ raised = "ValueError"
    /\ ~ is_token_valid(token, now)
    /\ env_key

\* a known endpoint was fetched: a login and a GET were issued
C23_WitnessKnown ==
    /\ call = "fetch_data"
    /\ fetch_args.endpoint_name = "rt_system_lambda"
    /\ raised = "none"
    /\ logins = 2
    /\ Len(http_gets) = 1

\* the date key of the endpoint asked for
DateKey == Entry(fetch_args.endpoint_name).date_key

\* C26: for every endpoint of the catalog, the query parameters fetch_data
\* sends with the GET contain {date_key}From = date_from and {date_key}To,
\* which is date_to when given and date_from otherwise; a parameter whose
\* value is None is not sent, and every parameter sent is one of the
\* endpoint's valid_parameters or is size or offset.
C26_DateParametersSent ==
    (call = "fetch_data" /\ http_gets # << >>) =>
        LET sent == http_gets[1].params
        IN  /\ <<DateKey, "From">> \in DOMAIN sent
            /\ sent[<<DateKey, "From">>] = fetch_args.date_from
            /\ <<DateKey, "To">> \in DOMAIN sent
            /\ sent[<<DateKey, "To">>] =
                  (IF fetch_args.date_to # NullStr THEN fetch_args.date_to
                   ELSE fetch_args.date_from)
            /\ fetch_args.settlement_point = None => <<"settlementPoint">> \notin DOMAIN sent
            /\ fetch_args.resource_type = None => <<"resourceType">> \notin DOMAIN sent
            /\ \A k \in DOMAIN fetch_args.kwargs :
                  fetch_args.kwargs[k] = None => k \notin DOMAIN sent
            /\ \A k \in DOMAIN sent :
                  \/ k \in get_endpoint_spec(fetch_args.endpoint_name).spec[1].valid_parameters
                  \/ k \in { <<"size">>, <<"offset">> }

-----------------------------------------------------------------------------
(* Properties of the table operations taken together *)

C28_OutputRowsAreInputRows ==
    (call = "filter_forecast_by_posted" /\ dat # << >>) =>
        \A j \in DOMAIN datout :
            \E i \in DOMAIN dat :
                /\ dat[i]["DATETIME"] = datout[j]["DATETIME"]
                /\ \A c \in DOMAIN datout[j] : ParsePosted(dat)[i][c] = datout[j][c]

-----------------------------------------------------------------------------
(* Properties of the tool dispatcher *)

\* the operation behind the tool fails on this call: an unknown endpoint, an
\* unknown category, too few days of data, a failed fetch, no credentials, a
\* text that is no JSON, or arguments that are no dictionary
OperationFails ==
    \/ ~ arguments.isdict
    \/ tool_name \in {"fetch_ercot_data", "get_endpoint_info"}
          /\ arguments.endpoint_name \notin EndpointNames
    \/ tool_name = "list_available_endpoints"
          /\ arguments.category \notin DOMAIN ENDPOINT_CATEGORIES \cup {"all"}
    \/ tool_name = "rolling_forecast_cross_validation"
          /\ operation_outcome = "insufficient data"
    \/ tool_name \in {"fetch_ercot_data", "get_net_load_forecast", "day_ahead_price_forecast",
                      "rolling_forecast_cross_validation"}
          /\ operation_outcome \in {"fetch failure", "no credentials"}
    \/ tool_name = "normalize_ercot_dataframe" /\ operation_outcome = "bad json"

\* the seven tools
ListedTools ==
    { "fetch_ercot_data", "list_available_endpoints", "normalize_ercot_dataframe",
      "get_endpoint_info", "get_net_load_forecast", "day_ahead_price_forecast",
      "rolling_forecast_cross_validation" }

\* C30: call_tool never raises to its host: for every tool name and argument
\* set, an exception raised by the underlying operation is returned as a
\* single text result beginning with "Error: ", and a tool name outside the
\* seven listed tools returns a single text result beginning with
\* "Unknown tool: " without calling any operation.
C30_CallToolNeverRaises ==
    call = "call_tool" =>
        /\ raised = "none"
        /\ Len(tool_result) = 1
        /\ tool_result[1].type = "text"
        /\ (tool_name \in ListedTools /\ OperationFails) =>
              tool_result[1].text[1] = "Error: "
        /\ tool_name \notin ListedTools =>
              /\ tool_result[1].text[1] = "Unknown tool: "
              /\ operations = << >>

C30_Witness ==
    /\ call = "call_tool"
    /\ tool_name = "rolling_forecast_cross_validation"
    /\ operation_outcome = "insufficient data"
    /\ operations = <<"get_client", "rolling_forecast_cv">>
    /\ tool_result = << TextContent(<<"Error: ", "ValueError">>) >>

\* a name that is no tool was answered without an operation
C30_WitnessUnknownTool ==
    /\ call = "call_tool"
    /\ tool_name = "fetch_data"
    /\ tool_result = << TextContent(<<"Unknown tool: ", "fetch_data">>) >>
    /\ operations = << >>

=============================================================================
